---- MODULE Spec2Model ----
(***************************************************************************)
(* Model of the mock-interview scheduler (scheduler.py) and of the         *)
(* calendar client it commits through (calendar_utils.py).                 *)
(*                                                                         *)
(* Time is counted in minutes from midnight of the candidate's start_date  *)
(* (date 0).  All datetimes of the program are America/Los_Angeles wall    *)
(* clock values; daylight-saving shifts are not modelled.                  *)
(* An interviewer is identified by name: in config.py a name always comes  *)
(* with the same email.                                                    *)
(***************************************************************************)
EXTENDS Integers, Sequences, FiniteSets, TLC

VARIABLES
    candidate,               \* the intake record handed to process_candidate
    calendar,                \* sessions on the calendar before the run
    fetch_status,            \* status of the result fetch_events returns in this run
    parsed_events,           \* parse_event of every fetched session
    interviewer_avail,       \* name -> busy intervals (the {date: [..]} map, flattened)
    candidate_avail,         \* [days: dates that are keys, busy: intervals]
    scheduled_events,        \* run-wide committed mocks
    course_scheduled_events, \* committed mocks of the course being placed
    scheduled_fs_courses,
    remaining_fs_courses,
    last_course_end,         \* None or a time
    window_start,
    course,                  \* the course schedule_mock_set is placing
    mock_durations,
    i,                       \* index of the next mock of the course (0-based)
    last_mock_end,
    sms_ret,                 \* what schedule_mock_set returned
    sop_ret,                 \* what sop_schedule returned
    proc_ret,                \* what process_candidate returned
    pc,                      \* position of the run
    creates,                 \* create_event_with_retry invocations so far
    failures,                \* of which ended in a terminal error
    \* calendar_utils.py, module state and the call in progress
    now,                     \* time.time(), in seconds
    last_api_call_time,      \* _last_api_call_time
    rate_limit_stats,        \* _rate_limit_stats
    cpc,                     \* position of the client: idle, limiter, insert
    cop,                     \* the operation last started by the caller
    ops,                     \* operations started so far
    cur_attempt,             \* loop index of create_event_with_retry
    behaviour,               \* what the provider answers to the attempts of this invocation
    insert_calls,            \* insert requests sent in this invocation
    retry_delay,             \* the backoff wait after the last answer, None if none
    result,                  \* the dict the last operation returned
    last_request,            \* the last request sent to the provider
    first_of_run,            \* no request was sent since reset_rate_limit_stats
    provider_events,         \* ids of the events the inserts of this invocation created
    event_id,                \* 'event_id' of the dict the invocation returned
    co                       \* the coroutines that share the limiter, when there are several

svars == <<candidate, calendar, fetch_status, parsed_events, interviewer_avail, candidate_avail,
           scheduled_events, course_scheduled_events, scheduled_fs_courses,
           remaining_fs_courses, last_course_end, window_start, course,
           mock_durations, i, last_mock_end, sms_ret, sop_ret, proc_ret, pc,
           creates, failures>>

cvars == <<now, last_api_call_time, rate_limit_stats, cpc, cop, ops, cur_attempt,
           behaviour, insert_calls, retry_delay, result, last_request,
           first_of_run, provider_events, event_id, co>>

vars == <<svars, cvars>>

-----------------------------------------------------------------------------
(* Bounds of the model *)

\* calendar-create invocations that may end in a terminal error in one run
MaxFailures == 1

\* operations a caller starts on the calendar client in one behaviour
MaxOps == 3

-----------------------------------------------------------------------------
(* config.py *)

COURSES == <<"FS1", "FS2", "FS3", "FS4", "FS5", "FS6", "Own">>

MAIN_INTERVIEWERS ==
    [FS1 |-> "Chandu", FS2 |-> "Ram", FS3 |-> "Kumar", FS4 |-> "Shaya",
     FS5 |-> "Shaya", FS6 |-> "Chandu", Own |-> "Vani"]

BACKUP_INTERVIEWERS ==
    [FS1 |-> <<"Harshith", "Nikhil">>,
     FS2 |-> <<"Gowtham", "Harshith">>,
     FS3 |-> <<"Chandu", "Harshith">>,
     FS4 |-> <<"Chandu", "Harshith">>,
     FS5 |-> <<"Chandu", "Harshith">>,
     FS6 |-> <<"Harshith">>,
     Own |-> <<"Gowtham">>]

Names == {"Kumar", "Ram", "Shaya", "Vani", "Chandu", "Harshith", "Gowtham", "Nikhil"}

\* the 'email' that comes with each 'name' in MAIN_INTERVIEWERS and
\* BACKUP_INTERVIEWERS
EMAIL ==
    [Chandu |-> "chandu.techpathai@gmail.com", Ram |-> "ram.m500062@gmail.com",
     Kumar |-> "kumar.techpath@gmail.com", Shaya |-> "shaya.techpath@gmail.com",
     Vani |-> "vani.techpath@gmail.com", Harshith |-> "dwserviceoffice@gmail.com",
     Nikhil |-> "techpath.mocks@gmail.com", Gowtham |-> "techpathaimocks@gmail.com"]

\* Working hours, in half hours: 17.5 is written 35, 21.5 is written 43.
INTERVIEWER_HOURS ==
    [Kumar    |-> [Weekday |-> <<<<36, 42>>>>,
                   Saturday |-> <<<<16, 24>>, <<36, 42>>>>,
                   Sunday |-> <<<<16, 24>>, <<36, 42>>>>],
     Ram      |-> [Weekday |-> <<<<36, 42>>>>,
                   Saturday |-> <<<<22, 28>>, <<36, 42>>>>,
                   Sunday |-> <<<<22, 28>>, <<36, 42>>>>],
     Shaya    |-> [Weekday |-> <<<<38, 44>>>>,
                   Saturday |-> <<<<22, 28>>, <<36, 42>>>>,
                   Sunday |-> <<<<22, 28>>, <<36, 42>>>>],
     Vani     |-> [Weekday |-> <<<<36, 42>>>>,
                   Saturday |-> <<<<22, 28>>, <<36, 42>>>>,
                   Sunday |-> <<<<22, 28>>, <<36, 42>>>>],
     Chandu   |-> [Weekday |-> <<<<36, 46>>>>,
                   Saturday |-> <<<<20, 28>>>>,
                   Sunday |-> <<<<22, 28>>, <<38, 46>>>>],
     Harshith |-> [Weekday |-> <<<<36, 46>>>>,
                   Saturday |-> <<<<20, 26>>>>,
                   Sunday |-> <<<<20, 26>>, <<40, 46>>>>],
     Gowtham  |-> [Weekday |-> <<<<34, 43>>>>,
                   Saturday |-> <<<<34, 43>>>>,
                   Sunday |-> <<<<34, 43>>>>],
     Nikhil   |-> [Weekday |-> <<<<34, 38>>>>,
                   Saturday |-> <<<<18, 24>>>>,
                   Sunday |-> <<<<42, 46>>>>]]

MOCK_SCHEDULE ==
    [FSX_FIRST |-> <<90, 90>>,
     FSX_OTHER |-> <<90, 90>>,
     FS5 |-> <<105>>,
     FS6 |-> <<105>>,
     OWN |-> <<90, 90, 60>>,
     FSX_FIRST_SHORT |-> <<90, 90>>,
     OWN_SHORT |-> <<90, 90>>]

MIN_GAP_HOURS == 12
MAX_MOCKS_PER_INTERVIEWER_PER_DAY == 2
CALENDAR_API_DELAY_SECONDS == 15
CALENDAR_API_MAX_RETRIES == 3

-----------------------------------------------------------------------------
(* datetime arithmetic *)

None == 0 - 1

MinPerDay == 24 * 60

Hours(h) == h * 60

Days(d) == d * MinPerDay

\* time(h, m) as minutes of the day
TimeHM(h, m) == h * 60 + m

\* datetime.date()
Date(t) == t \div MinPerDay

\* datetime.time()
TimeOf(t) == t % MinPerDay

\* datetime.combine(day, time(0, 0))
Midnight(day) == day * MinPerDay

\* datetime.weekday(): 0 is Monday; cand.weekday0 is the weekday of start_date
Weekday(cand, t) == (cand.weekday0 + Date(t)) % 7

\* time(int(x), int((x % 1) * 60)) of a fractional hour x, given in half hours
HourToTime(hh) == TimeHM(hh \div 2, (hh % 2) * 30)

SeqToSet(s) == {s[k] : k \in 1..Len(s)}

SetMin(S) == CHOOSE x \in S : \A y \in S : x <= y

SetMax(S) == CHOOSE x \in S : \A y \in S : x >= y

\* not (end1 <= start2 or start1 >= end2)
Overlaps(s1, e1, s2, e2) == ~(e1 <= s2 \/ s1 >= e2)

\* faulty variant: every returned value counts as success
Truthy_Always(v) == TRUE

\* Python truth value of a return value: only False (and None) are falsy, a
\* non-empty string such as 'calendar_quota_exceeded' is truthy
Truthy(v) == v # "False" /\ v # "None"

-----------------------------------------------------------------------------
(* utils.py *)

get_day_type(cand, t) ==
    IF Weekday(cand, t) = 5 THEN "Saturday"
    ELSE IF Weekday(cand, t) = 6 THEN "Sunday"
    ELSE "Weekday"

get_candidate_slots_for_day(cand, t) ==
    IF get_day_type(cand, t) \in {"Saturday", "Sunday"}
    THEN cand.weekend_slots
    ELSE cand.weekday_slots

-----------------------------------------------------------------------------
(* calendar_utils.py: titles, is_mock_interview_event, parse_event *)

\* A string is a sequence of symbols: " " is a whitespace character, ":" the
\* colon, and every other symbol a run of letters and digits that is written
\* as one piece.  No two symbols of the model, written one after the other,
\* spell a configured name, a course id or a mock number.
Space == " "

Colon == ":"

\* str.lower() on the words of the model
Lower(w) ==
    CASE w = "Asha" -> "asha"
      [] w = "ASHA" -> "asha"
      [] w = "Bala" -> "bala"
      [] w = "Manish" -> "manish"
      [] w = "Manish1" -> "manish1"
      [] w = "Manish2" -> "manish2"
      [] w = "Manish3" -> "manish3"
      [] w = "Manish4" -> "manish4"
      [] OTHER -> w

lower(str) == [k \in 1..Len(str) |-> Lower(str[k])]

RECURSIVE lstrip(_)
lstrip(str) == IF str # <<>> /\ Head(str) = Space THEN lstrip(Tail(str)) ELSE str

RECURSIVE rstrip(_)
rstrip(str) ==
    IF str # <<>> /\ str[Len(str)] = Space THEN rstrip(SubSeq(str, 1, Len(str) - 1)) ELSE str

\* str.strip()
strip(str) == rstrip(lstrip(str))

\* the length of the run of non-whitespace symbols a string starts with
RECURSIVE WordLen(_)
WordLen(str) == IF str = <<>> \/ Head(str) = Space THEN 0 ELSE 1 + WordLen(Tail(str))

\* str.split(): the maximal runs of non-whitespace symbols, in order
RECURSIVE split(_)
split(str) ==
    LET rest == lstrip(str)
    IN  IF rest = <<>> THEN <<>>
        ELSE <<SubSeq(rest, 1, WordLen(rest))>>
                 \o split(SubSeq(rest, WordLen(rest) + 1, Len(rest)))

\* str.split(':', 1): one part without a colon, else the parts before and
\* after the first colon
split_colon(str) ==
    IF \A k \in 1..Len(str) : str[k] # Colon THEN <<str>>
    ELSE LET c == SetMin({k \in 1..Len(str) : str[k] = Colon})
         IN  <<SubSeq(str, 1, c - 1), SubSeq(str, c + 1, Len(str))>>

\* the names of MAIN_INTERVIEWERS and BACKUP_INTERVIEWERS
all_interviewer_names ==
    {MAIN_INTERVIEWERS[c] : c \in DOMAIN MAIN_INTERVIEWERS}
        \cup UNION {SeqToSet(BACKUP_INTERVIEWERS[c]) : c \in DOMAIN BACKUP_INTERVIEWERS}

\* re.match(r'^Mock[123]$', mock_part) on a token
MockPattern(token) == token \in {<<"Mock1">>, <<"Mock2">>, <<"Mock3">>}

\* faulty variant: every title counts as a mock-interview title
is_mock_interview_event_Always(title) == TRUE

\* faulty variant: any mock number is accepted
is_mock_interview_event_AnyMock(title) ==
    /\ title # <<>>
    /\ Len(split_colon(title)) = 2
    /\ strip(split_colon(title)[1]) # <<>>
    /\ \E after_parts \in {split(strip(split_colon(title)[2]))} :
          /\ Len(after_parts) = 3
          /\ after_parts[2] \in {<<c>> : c \in SeqToSet(COURSES)}
          /\ after_parts[3] \in {<<"Mock1">>, <<"Mock2">>, <<"Mock3">>, <<"Mock4">>}
          /\ after_parts[1] \in {<<n>> : n \in all_interviewer_names}

is_mock_interview_event(title) ==
    /\ title # <<>>
    /\ Len(split_colon(title)) = 2
    /\ strip(split_colon(title)[1]) # <<>>
    /\ strip(split_colon(title)[2]) # <<>>
    /\ \E after_parts \in {split(strip(split_colon(title)[2]))} :
          /\ Len(after_parts) = 3
          /\ after_parts[2] \in {<<c>> : c \in SeqToSet(COURSES)}
          /\ MockPattern(after_parts[3])
          /\ after_parts[1] \in {<<n>> : n \in all_interviewer_names}

\* A session on the calendar is a record [title, required, start, end]:
\* 'summary', the emails of the attendees that are not optional, and the two
\* dateTime values.  In the parsed record the empty string stands for None as
\* well: the program only tests these fields for truth.
parse_event(ev) ==
    IF ~is_mock_interview_event(ev.title)
    THEN [title |-> ev.title, candidate |-> <<>>, after_colon |-> <<>>,
          start |-> None, end |-> None, required |-> {}, is_mock_event |-> FALSE]
    ELSE LET colon == split_colon(ev.title)
         IN  [title |-> ev.title,
              candidate |-> IF Len(colon) = 2 THEN strip(colon[1]) ELSE <<>>,
              after_colon |-> IF Len(colon) = 2 THEN strip(colon[2]) ELSE <<>>,
              start |-> ev.start, end |-> ev.end, required |-> ev.required,
              is_mock_event |-> TRUE]

-----------------------------------------------------------------------------
(* scheduler.py: availability maps *)

calculate_calendar_days(cand) == cand.total_days

\* end_date: midnight of the last date of the window
EndDate(cand) == Midnight(cand.total_days - 1)

IntervalsOf(kept) == [k \in 1..Len(kept) |-> <<kept[k].start, kept[k].end>>]

\* email_to_name: the name configured with an email
email_to_name(guest_email) == CHOOSE n \in Names : EMAIL[n] = guest_email

\* faulty variant: the required attendees are not consulted
RecordedUnder_AnyAttendees(e, n) ==
    /\ e.is_mock_event
    /\ e.after_colon # <<>>
    /\ split(e.after_colon) # <<>>
    /\ split(e.after_colon)[1] = <<n>>

\* the event is recorded under name n: n is the first token after the colon
\* and a required guest's email is configured with that name
RecordedUnder(e, n) ==
    /\ e.is_mock_event
    /\ e.after_colon # <<>>
    /\ split(e.after_colon) # <<>>
    /\ split(e.after_colon)[1] = <<n>>
    /\ \E guest_email \in e.required :
          /\ guest_email \in {EMAIL[m] : m \in Names}
          /\ email_to_name(guest_email) = n

build_interviewer_availability(pe) ==
    [n \in Names |-> IntervalsOf(SelectSeq(pe, LAMBDA e : RecordedUnder(e, n)))]

\* the event is recorded in the candidate's map
CandidateRequired(e, cand) == e.is_mock_event /\ cand.email \in e.required

build_candidate_availability(pe, cand) ==
    [days |-> (0..(cand.total_days - 1)) \cup
              {Date(pe[k].start) : k \in {j \in 1..Len(pe) : CandidateRequired(pe[j], cand)}},
     busy |-> IntervalsOf(SelectSeq(pe, LAMBDA e : CandidateRequired(e, cand)))]

\* interviewer_avail.get(name, {}).get(day, [])
BusySlots(avail, name, day) == SelectSeq(avail[name], LAMBDA b : Date(b[1]) = day)

\* updated_interviewer_avail: a copy of interviewer_avail with every event of
\* `events` appended under its interviewer and start date
UpdatedBusy(ia, events, n) == ia[n] \o IntervalsOf(SelectSeq(events, LAMBDA e : e.interviewer = n))

UpdatedAvail(ia, events) ==
    ("Kumar" :> UpdatedBusy(ia, events, "Kumar")) @@
    ("Ram" :> UpdatedBusy(ia, events, "Ram")) @@
    ("Shaya" :> UpdatedBusy(ia, events, "Shaya")) @@
    ("Vani" :> UpdatedBusy(ia, events, "Vani")) @@
    ("Chandu" :> UpdatedBusy(ia, events, "Chandu")) @@
    ("Harshith" :> UpdatedBusy(ia, events, "Harshith")) @@
    ("Gowtham" :> UpdatedBusy(ia, events, "Gowtham")) @@
    ("Nikhil" :> UpdatedBusy(ia, events, "Nikhil"))

-----------------------------------------------------------------------------
(* scheduler.py: check_interviewer_avail *)

\* faulty variant: the midnight test is left out
CrossesMidnightIgnored(mock_start, mock_end) == FALSE

CrossesMidnight(mock_start, mock_end) == Date(mock_end) # Date(mock_start)

\* faulty variant: the working hours are not consulted
InWorkingHours_Always(name, day_type, mock_start, mock_end) == TRUE

InWorkingHours(name, day_type, mock_start, mock_end) ==
    LET wh == INTERVIEWER_HOURS[name][day_type]
    IN  \E k \in 1..Len(wh) :
            /\ TimeOf(mock_start) >= HourToTime(wh[k][1])
            /\ TimeOf(mock_end) <= HourToTime(wh[k][2])

AlreadyBusy(busy_slots, mock_start, mock_end) ==
    \E k \in 1..Len(busy_slots) :
        Overlaps(mock_start, mock_end, busy_slots[k][1], busy_slots[k][2])

DailyCapReached(busy_slots) == Len(busy_slots) >= MAX_MOCKS_PER_INTERVIEWER_PER_DAY

\* interviewer_name in after_colon: the name is part of one of the words.  Of
\* the words of the model only "Harshitha" holds a configured name without
\* being it.
NameIn(name, str) ==
    \E k \in 1..Len(str) : str[k] = name \/ (str[k] = "Harshitha" /\ name = "Harshith")

is_interviewer_busy(name, pe, mock_start, mock_end) ==
    \E k \in 1..Len(pe) :
        /\ pe[k].is_mock_event
        /\ Overlaps(mock_start, mock_end, pe[k].start, pe[k].end)
        /\ pe[k].after_colon # <<>>
        /\ NameIn(name, pe[k].after_colon)

NikhilSundayRule(cand, name, mock_start, mock_end) ==
    (name = "Nikhil" /\ Weekday(cand, mock_start) = 6)
        => (TimeOf(mock_start) >= TimeHM(21, 0) /\ TimeOf(mock_end) <= TimeHM(23, 59))

\* faulty variant: neither the busy map nor the parsed sessions are consulted
check_interviewer_avail_NoBusyTests(cand, name, avail, mock_start, mock_end, day_type, pe) ==
    /\ ~CrossesMidnight(mock_start, mock_end)
    /\ InWorkingHours(name, day_type, mock_start, mock_end)
    /\ ~DailyCapReached(BusySlots(avail, name, Date(mock_start)))
    /\ NikhilSundayRule(cand, name, mock_start, mock_end)

check_interviewer_avail(cand, name, avail, mock_start, mock_end, day_type, pe) ==
    LET busy_slots == BusySlots(avail, name, Date(mock_start))
    IN  /\ ~CrossesMidnight(mock_start, mock_end)
        /\ InWorkingHours(name, day_type, mock_start, mock_end)
        /\ ~AlreadyBusy(busy_slots, mock_start, mock_end)
        /\ ~DailyCapReached(busy_slots)
        /\ ~is_interviewer_busy(name, pe, mock_start, mock_end)
        /\ NikhilSundayRule(cand, name, mock_start, mock_end)

-----------------------------------------------------------------------------
(* scheduler.py: the cursor tests shared by both searches *)

time_in_slot(cand, t) ==
    LET slots == get_candidate_slots_for_day(cand, t)
    IN  \E k \in 1..Len(slots) : TimeOf(t) >= slots[k][1] /\ TimeOf(t) <= slots[k][2]

\* the loop over candidate_avail[current_day]
candidate_free(ca, t, mock_end) ==
    \A k \in 1..Len(ca.busy) :
        Date(ca.busy[k][1]) = Date(t)
            => ~Overlaps(t, mock_end, ca.busy[k][1], ca.busy[k][2])

CandidateCursorOk(cand, ca, t, duration_min) ==
    /\ time_in_slot(cand, t)
    /\ Date(t) \in ca.days
    /\ candidate_free(ca, t, t + duration_min)

\* "for interviewer in <list>: if check_interviewer_avail(...): ...; break":
\* the position of the first interviewer of the list who passes, 0 if none
FirstAvailable(cand, interviewers, avail, t, duration_min, pe) ==
    LET ok == {k \in 1..Len(interviewers) :
                 check_interviewer_avail(cand, interviewers[k], avail, t,
                                         t + duration_min, get_day_type(cand, t), pe)}
    IN  IF ok = {} THEN 0 ELSE SetMin(ok)

\* the candidate dict has no 'timezone' key
Absent == "<absent>"

\* str.upper() on the timezone strings of the model
Upper(str) ==
    CASE str = "pst" -> "PST"
      [] str = "est" -> "EST"
      [] OTHER -> str

\* candidate.get('timezone', 'PST')
get_timezone(cand) == IF cand.timezone = Absent THEN "PST" ELSE cand.timezone

\* timezone = candidate.get('timezone', 'PST').upper()
time_preference(cand) ==
    IF Upper(get_timezone(cand)) = "PST" THEN "latest" ELSE "earliest"

\* faulty variant: the earliest slot whatever the timezone
BestOf_Earliest(cand, times) == SetMin(times)

\* max(slots, key=time) or min(slots, key=time)
BestOf(cand, times) ==
    IF time_preference(cand) = "latest" THEN SetMax(times) ELSE SetMin(times)

-----------------------------------------------------------------------------
(* calendar_utils.py: create_event_with_retry *)

\* What the provider answers to the successive attempts of one invocation:
\*   "ok"          the insert succeeds
\*   "quota403"    HttpError 403 with quotaExceeded / usageLimits
\*   "http429"     HttpError 429
\*   "http_other"  any other HttpError
\*   "exception"   any other exception
\*   "no_service"  get_google_service() returned None
RECURSIVE RetryLoop(_, _, _)
RetryLoop(responses, attempt, inserts) ==
    IF attempt > CALENDAR_API_MAX_RETRIES
    THEN [status |-> "error", error |-> "Max retries exceeded", inserts |-> inserts]
    ELSE LET r == responses[attempt + 1]
             retry == attempt < CALENDAR_API_MAX_RETRIES
         IN  CASE r = "no_service" ->
                    [status |-> "error", error |-> "Google service unavailable",
                     inserts |-> inserts]
               [] r = "ok" ->
                    [status |-> "ok", error |-> "", inserts |-> inserts + 1]
               [] r = "quota403" ->
                    IF retry THEN RetryLoop(responses, attempt + 1, inserts + 1)
                    ELSE [status |-> "error", error |-> "calendar_quota_exceeded",
                          inserts |-> inserts + 1]
               [] r = "http429" ->
                    IF retry THEN RetryLoop(responses, attempt + 1, inserts + 1)
                    ELSE [status |-> "error", error |-> "calendar_rate_limited",
                          inserts |-> inserts + 1]
               [] r = "http_other" ->
                    [status |-> "error", error |-> "HttpError", inserts |-> inserts + 1]
               [] OTHER ->
                    IF retry THEN RetryLoop(responses, attempt + 1, inserts + 1)
                    ELSE [status |-> "error", error |-> "Exception",
                          inserts |-> inserts + 1]

create_event_with_retry(responses) == RetryLoop(responses, 0, 0)

\* the provider behaviours the model injects, one per invocation
Always(r) == [k \in 1..(CALENDAR_API_MAX_RETRIES + 1) |-> r]

ProviderBehaviours ==
    {Always("ok"), Always("quota403"), Always("http429"), Always("http_other"),
     Always("exception"), Always("no_service"),
     <<"quota403", "http429", "exception", "ok">>}

-----------------------------------------------------------------------------
(* calendar_utils.py: rate limiting state and backoff *)

\* time.time() when the module is imported; _last_api_call_time is 0 then
ProcessStart == 100

\* seconds a request to the provider takes
Latencies == {0, 1}

\* seconds the caller lets pass before it starts an operation
IdleGaps == {0, 20}

ZeroStats ==
    [total_calls |-> 0, delayed_calls |-> 0, retry_attempts |-> 0,
     quota_errors |-> 0, rate_limit_errors |-> 0, successful_calls |-> 0]

Bump(stats, key) == [stats EXCEPT ![key] = @ + 1]

\* faulty variant: the limiter never waits
SleepTime_NoWait(time_since_last_call) == 0

\* rate_limited_sleep: sleep_time, 0 when no sleep is due
SleepTime(time_since_last_call) ==
    IF time_since_last_call < CALENDAR_API_DELAY_SECONDS
    THEN CALENDAR_API_DELAY_SECONDS - time_since_last_call
    ELSE 0

\* faulty variant: only quota errors are tried again
Retryable_QuotaOnly == {"quota403"}

\* faulty variant: every error answer is tried again
Retryable_AnyError == {"quota403", "http429", "exception", "http_other"}

\* faulty variant: a successful insert is tried again like an error
Retryable_WithSuccess == {"quota403", "http429", "exception", "ok"}

\* the answers after which create_event_with_retry may try again
Retryable == {"quota403", "http429", "exception"}

\* faulty variant: the same linear wait for every class
Backoff_Linear(r, a) == 2 * (a + 1)

\* retry_delay after a failed attempt
Backoff(r, a) ==
    CASE r = "quota403" -> (2 ^ a) * 5
      [] r = "http429" -> (2 ^ a) * 3
      [] OTHER -> 2 * (a + 1)

\* the 'error' of the dict returned when the invocation ends on answer r
TerminalError(r) ==
    CASE r = "quota403" -> "calendar_quota_exceeded"
      [] r = "http429" -> "calendar_rate_limited"
      [] r = "http_other" -> "HttpError"
      [] r = "no_service" -> "Google service unavailable"
      [] OTHER -> "Exception"

CountError(stats, r) ==
    IF r = "quota403" THEN Bump(stats, "quota_errors")
    ELSE IF r = "http429" THEN Bump(stats, "rate_limit_errors")
    ELSE stats

\* event.get('id') of the event the provider creates for the insert of
\* attempt `attempt` (0-based) of the invocation that is operation `call`
EventId(call, attempt) == call * (CALENDAR_API_MAX_RETRIES + 1) + attempt + 1

NoRequest == [op |-> "none", at |-> None, since_previous |-> None, first_of_run |-> FALSE]

\* the provider behaviours of the client specification: those of the run and
\* one whose retry meets a non-retryable error
ClientBehaviours ==
    ProviderBehaviours \cup {<<"http429", "http_other", "ok", "ok">>}

-----------------------------------------------------------------------------
(* scheduler.py: schedule_mock_set, the search for one mock *)

FS_COURSES == SubSeq(COURSES, 1, Len(COURSES) - 1)

OWN_COURSE == COURSES[Len(COURSES)]

\* [main_interviewer] + cross_course_mains
main_interviewers_list(crs) ==
    <<MAIN_INTERVIEWERS[crs]>> \o
    LET others == SelectSeq(FS_COURSES, LAMBDA o :
                      o # crs /\ MAIN_INTERVIEWERS[o] = MAIN_INTERVIEWERS[crs])
    IN  [k \in 1..Len(others) |-> MAIN_INTERVIEWERS[others[k]]]

backup_interviewers_list(crs) == BACKUP_INTERVIEWERS[crs]

\* faulty variant: the next mock may start as soon as the previous one ends
EarliestStartNoGap(idx, lme, ws) == IF idx > 0 THEN lme ELSE ws

\* earliest_start of mock idx
EarliestStart(idx, lme, ws) ==
    IF idx > 0 THEN lme + Hours(MIN_GAP_HOURS) ELSE ws

DayStartTime(day, earliest_start) ==
    IF day = Date(earliest_start) THEN earliest_start ELSE Midnight(day)

\* the values current_time takes on current_day: from the day's start time in
\* 30-minute steps while still on that date and not after 23:59
DayCursors(day, earliest_start) ==
    {t \in {DayStartTime(day, earliest_start) + 30 * k : k \in 0..47} :
        Date(t) = day /\ t <= Midnight(day) + TimeHM(23, 59)}

\* main_interviewer_slots_today / backup_interviewer_slots_today (the times)
SlotsToday(cand, ca, avail, pe, interviewers, day, earliest_start, duration_min) ==
    {t \in DayCursors(day, earliest_start) :
        /\ CandidateCursorOk(cand, ca, t, duration_min)
        /\ FirstAvailable(cand, interviewers, avail, t, duration_min, pe) # 0}

NoSlot == [found |-> FALSE, slot |-> None, interviewer |-> "", type |-> ""]

Selected(cand, avail, pe, interviewers, times, duration_min, type) ==
    LET best == BestOf(cand, times)
    IN  [found |-> TRUE, slot |-> best,
         interviewer |-> interviewers[FirstAvailable(cand, interviewers, avail, best,
                                                     duration_min, pe)],
         type |-> type]

\* the while loop over current_day: Round 1 then Round 2 on each day, stopping
\* at the first day with a slot
RECURSIVE DayByDay(_, _, _, _, _, _, _, _)
DayByDay(cand, ca, avail, pe, crs, day, earliest_start, duration_min) ==
    IF day > Date(EndDate(cand))
    THEN NoSlot
    ELSE LET mains == main_interviewers_list(crs)
             backups == backup_interviewers_list(crs)
             main_today == SlotsToday(cand, ca, avail, pe, mains, day,
                                      earliest_start, duration_min)
             backup_today == SlotsToday(cand, ca, avail, pe, backups, day,
                                        earliest_start, duration_min)
         IN  IF main_today # {}
             THEN Selected(cand, avail, pe, mains, main_today, duration_min, "main")
             ELSE IF backup_today # {}
             THEN Selected(cand, avail, pe, backups, backup_today, duration_min, "backup")
             ELSE DayByDay(cand, ca, avail, pe, crs, day + 1, earliest_start,
                           duration_min)

FindMockSlot(cand, ca, ia, pe, events, crs, earliest_start, duration_min) ==
    DayByDay(cand, ca, UpdatedAvail(ia, events), pe, crs, Date(earliest_start),
             earliest_start, duration_min)

-----------------------------------------------------------------------------
(* scheduler.py: find_earliest_mock_slot *)

\* The values current_time takes: from start in 30-minute steps while
\* current_time <= end_date.  ProbeCursors(cand, start, day) are those of
\* them that fall on `day`.
CeilDiv(a, b) == (a + b - 1) \div b

ProbeCursors(cand, start, day) ==
    LET first == IF Midnight(day) <= start THEN 0
                 ELSE CeilDiv(Midnight(day) - start, 30)
    IN  {t \in {start + 30 * k : k \in first..(first + 47)} :
            Date(t) = day /\ t <= EndDate(cand)}

\* the cursors of `day` that the scan appends to main_interviewer_slots
\* (main = TRUE) or to backup_interviewer_slots (main = FALSE)
ProbeSlotsOn(cand, ca, avail, pe, start, interviewers, duration_min, crs, day, main) ==
    LET main_interviewer_names == {MAIN_INTERVIEWERS[crs]}
    IN  {t \in ProbeCursors(cand, start, day) :
            /\ CandidateCursorOk(cand, ca, t, duration_min)
            /\ \E k \in 1..Len(interviewers) :
                  /\ (interviewers[k] \in main_interviewer_names) = main
                  /\ check_interviewer_avail(cand, interviewers[k], avail, t,
                         t + duration_min, get_day_type(cand, t), pe)}

\* max(slots) / min(slots) over the whole scan: the slots of all dates are
\* looked at date by date, from the last date down for 'latest' and from the
\* first date up for 'earliest'; the first date that has a slot holds the
\* result.  None when no date has one.
RECURSIVE BestProbeSlot(_, _, _, _, _, _, _, _, _, _)
BestProbeSlot(cand, ca, avail, pe, start, interviewers, duration_min, crs, day, main) ==
    IF day < Date(start) \/ day > Date(EndDate(cand)) \/ start > EndDate(cand)
    THEN None
    ELSE LET today == ProbeSlotsOn(cand, ca, avail, pe, start, interviewers,
                                   duration_min, crs, day, main)
         IN  IF today # {} THEN BestOf(cand, today)
             ELSE BestProbeSlot(cand, ca, avail, pe, start, interviewers, duration_min,
                                crs,
                                IF time_preference(cand) = "latest"
                                THEN day - 1 ELSE day + 1,
                                main)

FirstProbeDay(cand, start) ==
    IF time_preference(cand) = "latest" THEN Date(EndDate(cand)) ELSE Date(start)

\* faulty variant: the backup bucket is looked at before the main bucket
find_earliest_mock_slot_BackupFirst(cand, ca, ia, pe, start, interviewers, duration_min, events, crs) ==
    LET avail == UpdatedAvail(ia, events)
        main_best == BestProbeSlot(cand, ca, avail, pe, start, interviewers,
                                   duration_min, crs, FirstProbeDay(cand, start), TRUE)
        backup_best == BestProbeSlot(cand, ca, avail, pe, start, interviewers,
                                     duration_min, crs, FirstProbeDay(cand, start), FALSE)
    IN  IF backup_best # None THEN backup_best
        ELSE IF main_best # None THEN main_best
        ELSE None

find_earliest_mock_slot(cand, ca, ia, pe, start, interviewers, duration_min, events, crs) ==
    LET avail == UpdatedAvail(ia, events)
        main_best == BestProbeSlot(cand, ca, avail, pe, start, interviewers,
                                   duration_min, crs, FirstProbeDay(cand, start), TRUE)
        backup_best == BestProbeSlot(cand, ca, avail, pe, start, interviewers,
                                     duration_min, crs, FirstProbeDay(cand, start), FALSE)
    IN  IF main_best # None THEN main_best
        ELSE IF backup_best # None THEN backup_best
        ELSE None

-----------------------------------------------------------------------------
(* scheduler.py: sop_schedule, the pieces of the course loop *)

is_long_schedule(cand) == calculate_calendar_days(cand) >= 16

\* faulty variant: the next course may start as soon as the last one ends
NextWindowStart_NoGap(lce, long) == lce

\* the window lower bound of a course placed after another one
NextWindowStart(lce, long) ==
    IF long THEN Midnight(Date(lce + Days(2)))
    ELSE lce + Hours(MIN_GAP_HOURS)

\* the course loop's window_start
LoopWindowStart(cand, lce) ==
    IF lce = None THEN 0 ELSE NextWindowStart(lce, is_long_schedule(cand))

\* faulty variant: the Own course may start as soon as the last course ends
OwnWindowStartNoGap(cand, lce) == lce

\* the Own course's window_start (last_course_end is not None here)
OwnWindowStart(cand, lce) == NextWindowStart(lce, is_long_schedule(cand))

\* Round 1 / Round 2 probes: the pairs <<position in remaining, result>> of
\* the courses whose probe returned a time
Round1(cand, ca, ia, pe, ws, events, remaining) ==
    {r \in {<<k, find_earliest_mock_slot(cand, ca, ia, pe, ws,
                  main_interviewers_list(remaining[k]), 90, events, remaining[k])>> :
            k \in 1..Len(remaining)} : r[2] # None}

Round2(cand, ca, ia, pe, ws, events, remaining) ==
    {r \in {<<k, IF Len(BACKUP_INTERVIEWERS[remaining[k]]) > 0
                 THEN find_earliest_mock_slot(cand, ca, ia, pe, ws,
                          BACKUP_INTERVIEWERS[remaining[k]], 90, events, remaining[k])
                 ELSE None>> :
            k \in 1..Len(remaining)} : r[2] # None}

\* "if course_earliest and (earliest_fs_start is None or course_earliest <
\* earliest_fs_start)": the first position holding the smallest result, 0 if
\* no course has a result
PickEarliest(results) ==
    IF results = {} THEN 0
    ELSE SetMin({r[1] : r \in {q \in results : \A o \in results : q[2] <= o[2]}})

\* faulty variant: the backup probes are never made
SelectCourse_MainOnly(cand, ca, ia, pe, ws, events, remaining) ==
    PickEarliest(Round1(cand, ca, ia, pe, ws, events, remaining))

\* position in `remaining` of earliest_fs_course, 0 if there is none
SelectCourse(cand, ca, ia, pe, ws, events, remaining) ==
    LET p1 == PickEarliest(Round1(cand, ca, ia, pe, ws, events, remaining))
    IN  IF p1 # 0 THEN p1
        ELSE PickEarliest(Round2(cand, ca, ia, pe, ws, events, remaining))

MockDurationsFor(cand, crs, scheduled_fs) ==
    IF crs = "FS5" THEN MOCK_SCHEDULE.FS5
    ELSE IF crs = "FS6" THEN MOCK_SCHEDULE.FS6
    ELSE IF scheduled_fs = <<>>
         THEN IF is_long_schedule(cand) THEN MOCK_SCHEDULE.FSX_FIRST
              ELSE MOCK_SCHEDULE.FSX_FIRST_SHORT
    ELSE MOCK_SCHEDULE.FSX_OTHER

OwnMockDurations(cand) ==
    IF is_long_schedule(cand) THEN MOCK_SCHEDULE.OWN ELSE MOCK_SCHEDULE.OWN_SHORT

RemoveAt(s, k) == SubSeq(s, 1, k - 1) \o SubSeq(s, k + 1, Len(s))

\* the error branch of schedule_mock_set after create_event_with_retry
Classify(error) ==
    IF error = "calendar_quota_exceeded" THEN "calendar_quota_exceeded"
    ELSE IF error = "calendar_rate_limited" THEN "calendar_rate_limited"
    ELSE "calendar_event_error"

\* max(e['end'] for e in course_events), course_events being the committed
\* events whose title holds the course id; None when there is none
CourseEventsEnd(events, crs) ==
    LET ends == {events[k].end : k \in {j \in 1..Len(events) : events[j].course = crs}}
    IN  IF ends = {} THEN None ELSE SetMax(ends)

-----------------------------------------------------------------------------
(* The inputs of a run *)

\* total calendar days of the window: one too short for the curriculum, one
\* short-mode and one long-mode window
WindowDays == {9, 15, 21}

StartWeekdays == {0}

Timezones == {"PST", "EST"}

\* candidate['name'] and candidate['email'] of the intake record
CandidateName == <<"Asha">>

CandidateEmail == "asha@example.com"

\* a candidate without the key, and a timezone typed in lower case; both come
\* with the shortest window only
OtherTimezones == {Absent, "pst"}

\* weekday_slots / weekend_slots as parsed by slots_from_list
WeekdaySlots == {<<<<TimeHM(17, 0), TimeHM(23, 30)>>>>}

\* weekday_slots that start when most main interviewers stop working
LateWeekdaySlots == {<<<<TimeHM(21, 0), TimeHM(23, 30)>>>>}

\* weekday_slots of one hour, shorter than a mock
NarrowWeekdaySlots == {<<<<TimeHM(20, 0), TimeHM(21, 0)>>>>}

WeekendSlots == {<<<<TimeHM(8, 0), TimeHM(23, 30)>>>>}

\* slots of every day that leave 90 minutes before the last interviewer stops
LateEveningSlots == {<<<<TimeHM(21, 30), TimeHM(23, 30)>>>>}

\* the late, the narrow and the late-evening slots come with the shortest
\* window only
Candidates ==
    [name : {CandidateName}, email : {CandidateEmail},
     timezone : Timezones, total_days : WindowDays, weekday0 : StartWeekdays,
     weekday_slots : WeekdaySlots, weekend_slots : WeekendSlots]
    \cup
    [name : {CandidateName}, email : {CandidateEmail},
     timezone : Timezones, total_days : {9}, weekday0 : StartWeekdays,
     weekday_slots : LateWeekdaySlots, weekend_slots : WeekendSlots]
    \cup
    [name : {CandidateName}, email : {CandidateEmail},
     timezone : OtherTimezones, total_days : {9}, weekday0 : StartWeekdays,
     weekday_slots : WeekdaySlots, weekend_slots : WeekendSlots]
    \cup
    [name : {CandidateName}, email : {CandidateEmail},
     timezone : {"EST"}, total_days : {9}, weekday0 : StartWeekdays,
     weekday_slots : NarrowWeekdaySlots, weekend_slots : WeekendSlots]
    \cup
    [name : {CandidateName}, email : {CandidateEmail},
     timezone : {"EST"}, total_days : {9}, weekday0 : StartWeekdays,
     weekday_slots : LateEveningSlots, weekend_slots : LateEveningSlots]

\* 'summary' of the event schedule_mock_set creates:
\* f"{candidate['name']} : {interviewer} {course} Mock{i+1}"
MockNumber(idx) == CASE idx = 0 -> "Mock1" [] idx = 1 -> "Mock2" [] idx = 2 -> "Mock3"

MockTitle(cand_name, interviewer, c, idx) ==
    cand_name \o <<Space, Colon, Space, interviewer, Space, c, Space, MockNumber(idx)>>

Event(title, required, start, end) ==
    [title |-> title, required |-> required, start |-> start, end |-> end]

\* another candidate of the programme
OtherCandidate == [name |-> <<"Bala">>, email |-> "bala@example.com"]

\* a mock of the other candidate with Kumar on date 0 at 19:30, Kumar not
\* being among the required attendees
UnattendedMock ==
    Event(MockTitle(OtherCandidate.name, "Kumar", "FS3", 0),
          {OtherCandidate.email}, Hours(18) + 90, Hours(21))

\* the other candidate's mock with Chandu at 18:00
AttendedMock ==
    Event(MockTitle(OtherCandidate.name, "Chandu", "FS1", 0),
          {OtherCandidate.email, EMAIL["Chandu"]}, Hours(18), Hours(18) + 90)

\* Mock sessions that may be on the calendar before the run, both with Chandu
\* on date 0: a mock of another candidate at 18:00 and a mock of this
\* candidate at 19:30.
SessionPool ==
    {AttendedMock,
     Event(MockTitle(CandidateName, "Chandu", "FS1", 1),
           {CandidateEmail, EMAIL["Chandu"]}, Hours(18) + 90, Hours(18) + 180)}

\* Sessions that are not mocks, on date 0 from 18:00: an intro call of the
\* candidate with Chandu, titled like a mock but for its words after the
\* interviewer, and a team meeting of Chandu and Ram.
NonMockSessions ==
    {Event(CandidateName \o <<Space, Colon, Space, "Chandu", Space, "intro", Space, "call">>,
           {CandidateEmail, EMAIL["Chandu"]}, Hours(18), Hours(18) + 90),
     Event(<<"Meeting", Space, "with", Space, "team">>,
           {EMAIL["Chandu"], EMAIL["Ram"]}, Hours(18), Hours(21))}

\* the interviewer a mock session is held with
InterviewerOf(x) == split(strip(split_colon(x.title)[2]))[1]

\* A calendar the scheduler itself could have produced: every mock within one
\* date, no interviewer and no candidate double-booked, no interviewer above
\* the daily cap.  Sessions that are not mocks are under no constraint.
CalendarConsistent(S) ==
    \E M \in {{x \in S : is_mock_interview_event(x.title)}} :
        /\ \A x \in M : x.start < x.end /\ Date(x.start) = Date(x.end)
        /\ \A x, y \in M :
              (x # y /\ x.required \cap y.required # {})
                  => ~Overlaps(x.start, x.end, y.start, y.end)
        /\ \A x \in M :
              Cardinality({y \in M : InterviewerOf(y) = InterviewerOf(x)
                                     /\ Date(y.start) = Date(x.start)})
                  <= MAX_MOCKS_PER_INTERVIEWER_PER_DAY

\* fetch_events returns the sessions ordered by start time
RECURSIVE SortedByStart(_)
SortedByStart(S) ==
    IF S = {} THEN <<>>
    ELSE LET first == CHOOSE x \in S : \A y \in S : x.start <= y.start
         IN  <<first>> \o SortedByStart(S \ {first})

\* the calendars of mocks
Calendars ==
    {SortedByStart(S) : S \in {T \in SUBSET SessionPool : CalendarConsistent(T)}}

\* a calendar that holds the other sessions as well
MixedCalendar == SortedByStart(NonMockSessions \cup {AttendedMock, UnattendedMock})

\* what fetch_events hands back: {'status': 'ok', 'events': items}, or
\* {'status': 'error', ..., 'events': []} when the service is unavailable or
\* the list call raises
fetch_events(status, cal) ==
    [status |-> status, events |-> IF status = "ok" THEN cal ELSE <<>>]

FetchStatuses == {"ok", "error"}

-----------------------------------------------------------------------------
(* The run *)

\* the run before process_candidate is entered
RunIdle ==
    /\ parsed_events = <<>>
    /\ interviewer_avail = [n \in Names |-> <<>>]
    /\ candidate_avail = [days |-> {}, busy |-> <<>>]
    /\ scheduled_events = <<>>
    /\ course_scheduled_events = <<>>
    /\ scheduled_fs_courses = <<>>
    /\ remaining_fs_courses = <<>>
    /\ last_course_end = None
    /\ window_start = 0
    /\ course = ""
    /\ mock_durations = <<>>
    /\ i = 0
    /\ last_mock_end = 0
    /\ sms_ret = "None"
    /\ sop_ret = "None"
    /\ proc_ret = "None"
    /\ pc = "start"
    /\ creates = 0
    /\ failures = 0

\* one thread of control: no coroutine is tracked
NoCoroutines == <<>>

\* calendar_utils.py as imported, at time ProcessStart
ClientIdle ==
    /\ now = ProcessStart
    /\ last_api_call_time = 0
    /\ rate_limit_stats = ZeroStats
    /\ cpc = "idle"
    /\ cop = "none"
    /\ ops = 0
    /\ cur_attempt = 0
    /\ behaviour = <<>>
    /\ insert_calls = 0
    /\ retry_delay = None
    /\ result = [status |-> "none", error |-> ""]
    /\ last_request = NoRequest
    /\ first_of_run = FALSE
    /\ provider_events = <<>>
    /\ event_id = None

\* the mixed calendar comes with the shortest and the longest window
Init ==
    /\ \/ candidate \in Candidates /\ calendar \in Calendars
       \/ /\ candidate \in {c \in Candidates : /\ c.timezone \in Timezones
                                                /\ c.total_days \in {9, 21}
                                                /\ c.weekday_slots \in WeekdaySlots}
          /\ calendar = MixedCalendar
    /\ fetch_status \in FetchStatuses
    /\ RunIdle
    /\ ClientIdle
    /\ co = NoCoroutines

\* process_candidate up to the call of sop_schedule, and sop_schedule up to
\* its course loop
ProcessCandidate ==
    /\ pc = "start"
    /\ LET events_result == fetch_events(fetch_status, calendar)
           events == events_result.events
           pe == [k \in 1..Len(events) |-> parse_event(events[k])]
       IN  /\ parsed_events' = pe
           /\ interviewer_avail' = build_interviewer_availability(pe)
           /\ candidate_avail' = build_candidate_availability(pe, candidate)
    /\ scheduled_events' = <<>>
    /\ scheduled_fs_courses' = <<>>
    /\ remaining_fs_courses' = FS_COURSES
    /\ last_course_end' = None
    /\ pc' = "loop"
    /\ UNCHANGED <<cvars, candidate, calendar, fetch_status, course_scheduled_events, window_start, course,
                   mock_durations, i, last_mock_end, sms_ret, sop_ret, proc_ret,
                   creates, failures>>

\* one pass through the head of "while remaining_fs_courses": the window, the
\* round-robin selection, the durations, and the entry into schedule_mock_set
NextCourse ==
    /\ pc = "loop"
    /\ remaining_fs_courses # <<>>
    /\ \E ws \in {LoopWindowStart(candidate, last_course_end)} :
       \E p \in {SelectCourse(candidate, candidate_avail, interviewer_avail,
                              parsed_events, ws, scheduled_events, remaining_fs_courses)} :
           /\ window_start' = ws
           /\ IF p = 0
              THEN /\ sop_ret' = "False"
                   /\ pc' = "returned"
                   /\ UNCHANGED <<course, mock_durations, i, last_mock_end,
                                  course_scheduled_events, sms_ret>>
              ELSE /\ course' = remaining_fs_courses[p]
                   /\ mock_durations' = MockDurationsFor(candidate, remaining_fs_courses[p],
                                                         scheduled_fs_courses)
                   /\ i' = 0
                   /\ last_mock_end' = ws
                   /\ course_scheduled_events' = <<>>
                   /\ sms_ret' = "None"
                   /\ pc' = "mock"
                   /\ UNCHANGED sop_ret
    /\ UNCHANGED <<cvars, candidate, calendar, fetch_status, parsed_events, interviewer_avail, candidate_avail,
                   scheduled_events, scheduled_fs_courses, remaining_fs_courses,
                   last_course_end, proc_ret, creates, failures>>

\* faulty variant: the placement is committed before the calendar call, so it
\* stays committed when the call ends in an error
PlaceMock_CommitBeforeCreate ==
    /\ pc = "mock"
    /\ \E found \in {FindMockSlot(candidate, candidate_avail, interviewer_avail,
                                   parsed_events,
                                   scheduled_events \o course_scheduled_events,
                                   course,
                                   EarliestStart(i, last_mock_end, window_start),
                                   mock_durations[i + 1])} :
       LET duration_min == mock_durations[i + 1]
           mock_end == found.slot + duration_min
           event_info == [course |-> course, index |-> i,
                          interviewer |-> found.interviewer,
                          start |-> found.slot, end |-> mock_end, type |-> found.type]
       IN  IF ~found.found
           THEN /\ sms_ret' = "False"
                /\ pc' = "after"
                /\ UNCHANGED <<scheduled_events, course_scheduled_events,
                               interviewer_avail, i, last_mock_end, creates, failures>>
           ELSE \E responses \in ProviderBehaviours :
                   LET event_result == create_event_with_retry(responses)
                   IN  /\ creates' = creates + 1
                       /\ IF event_result.status = "error"
                          THEN /\ failures < MaxFailures
                               /\ failures' = failures + 1
                               /\ sms_ret' = Classify(event_result.error)
                               /\ pc' = "after"
                               /\ scheduled_events' = Append(scheduled_events, event_info)
                               /\ course_scheduled_events' =
                                      Append(course_scheduled_events, event_info)
                               /\ interviewer_avail' =
                                      [interviewer_avail EXCEPT ![found.interviewer] =
                                          Append(@, <<found.slot, mock_end>>)]
                               /\ UNCHANGED <<i, last_mock_end>>
                          ELSE /\ scheduled_events' = Append(scheduled_events, event_info)
                               /\ course_scheduled_events' =
                                      Append(course_scheduled_events, event_info)
                               /\ interviewer_avail' =
                                      [interviewer_avail EXCEPT ![found.interviewer] =
                                          Append(@, <<found.slot, mock_end>>)]
                               /\ last_mock_end' = mock_end
                               /\ i' = i + 1
                               /\ IF i + 1 = Len(mock_durations)
                                  THEN sms_ret' = "True" /\ pc' = "after"
                                  ELSE UNCHANGED <<sms_ret, pc>>
                               /\ UNCHANGED failures
    /\ UNCHANGED <<cvars, candidate, calendar, fetch_status, parsed_events, candidate_avail,
                   scheduled_fs_courses, remaining_fs_courses, last_course_end,
                   window_start, course, mock_durations, sop_ret, proc_ret>>

\* one iteration of schedule_mock_set's loop over mock_durations: the search,
\* the calendar call, the commit, and the return when the loop ends
PlaceMock ==
    /\ pc = "mock"
    /\ \E found \in {FindMockSlot(candidate, candidate_avail, interviewer_avail,
                                   parsed_events,
                                   scheduled_events \o course_scheduled_events,
                                   course,
                                   EarliestStart(i, last_mock_end, window_start),
                                   mock_durations[i + 1])} :
       LET duration_min == mock_durations[i + 1]
           mock_end == found.slot + duration_min
           event_info == [course |-> course, index |-> i,
                          interviewer |-> found.interviewer,
                          start |-> found.slot, end |-> mock_end, type |-> found.type]
       IN  IF ~found.found
           THEN /\ sms_ret' = "False"
                /\ pc' = "after"
                /\ UNCHANGED <<scheduled_events, course_scheduled_events,
                               interviewer_avail, i, last_mock_end, creates, failures>>
           ELSE \E responses \in ProviderBehaviours :
                   LET event_result == create_event_with_retry(responses)
                   IN  /\ creates' = creates + 1
                       /\ IF event_result.status = "error"
                          THEN /\ failures < MaxFailures
                               /\ failures' = failures + 1
                               /\ sms_ret' = Classify(event_result.error)
                               /\ pc' = "after"
                               /\ UNCHANGED <<scheduled_events, course_scheduled_events,
                                              interviewer_avail, i, last_mock_end>>
                          ELSE /\ scheduled_events' = Append(scheduled_events, event_info)
                               /\ course_scheduled_events' =
                                      Append(course_scheduled_events, event_info)
                               /\ interviewer_avail' =
                                      [interviewer_avail EXCEPT ![found.interviewer] =
                                          Append(@, <<found.slot, mock_end>>)]
                               /\ last_mock_end' = mock_end
                               /\ i' = i + 1
                               /\ IF i + 1 = Len(mock_durations)
                                  THEN sms_ret' = "True" /\ pc' = "after"
                                  ELSE UNCHANGED <<sms_ret, pc>>
                               /\ UNCHANGED failures
    /\ UNCHANGED <<cvars, candidate, calendar, fetch_status, parsed_events, candidate_avail,
                   scheduled_fs_courses, remaining_fs_courses, last_course_end,
                   window_start, course, mock_durations, sop_ret, proc_ret>>

\* faulty variant: after a course that failed the loop goes round again with
\* the course still among the remaining ones
AfterCourse_TriesAgain ==
    /\ pc = "after"
    /\ course # OWN_COURSE
    /\ IF ~Truthy(sms_ret)
       THEN /\ pc' = "loop"
            /\ UNCHANGED <<sop_ret, scheduled_fs_courses, remaining_fs_courses,
                           last_course_end>>
       ELSE /\ scheduled_fs_courses' = Append(scheduled_fs_courses, course)
            /\ remaining_fs_courses' =
                   SelectSeq(remaining_fs_courses, LAMBDA c : c # course)
            /\ last_course_end' =
                   IF CourseEventsEnd(scheduled_events, course) # None
                   THEN CourseEventsEnd(scheduled_events, course)
                   ELSE last_course_end
            /\ pc' = "loop"
            /\ UNCHANGED sop_ret
    /\ UNCHANGED <<cvars, candidate, calendar, fetch_status, parsed_events, interviewer_avail, candidate_avail,
                   scheduled_events, course_scheduled_events, window_start, course,
                   mock_durations, i, last_mock_end, sms_ret, proc_ret, creates,
                   failures>>

\* sop_schedule after schedule_mock_set returned for a course of the loop
AfterCourse ==
    /\ pc = "after"
    /\ course # OWN_COURSE
    /\ IF ~Truthy(sms_ret)
       THEN /\ sop_ret' = "False"
            /\ pc' = "returned"
            /\ UNCHANGED <<scheduled_fs_courses, remaining_fs_courses, last_course_end>>
       ELSE /\ scheduled_fs_courses' = Append(scheduled_fs_courses, course)
            /\ remaining_fs_courses' =
                   SelectSeq(remaining_fs_courses, LAMBDA c : c # course)
            /\ last_course_end' =
                   IF CourseEventsEnd(scheduled_events, course) # None
                   THEN CourseEventsEnd(scheduled_events, course)
                   ELSE last_course_end
            /\ pc' = "loop"
            /\ UNCHANGED sop_ret
    /\ UNCHANGED <<cvars, candidate, calendar, fetch_status, parsed_events, interviewer_avail, candidate_avail,
                   scheduled_events, course_scheduled_events, window_start, course,
                   mock_durations, i, last_mock_end, sms_ret, proc_ret, creates,
                   failures>>

\* sop_schedule once the course loop has ended: the Own course's window and
\* the entry into schedule_mock_set.  With last_course_end still None the
\* addition raises TypeError and the run ends without a return value.
StartOwn ==
    /\ pc = "loop"
    /\ remaining_fs_courses = <<>>
    /\ IF last_course_end = None
       THEN /\ pc' = "raised"
            /\ UNCHANGED <<window_start, course, mock_durations, i, last_mock_end,
                           course_scheduled_events, sms_ret>>
       ELSE /\ window_start' = OwnWindowStart(candidate, last_course_end)
            /\ course' = OWN_COURSE
            /\ mock_durations' = OwnMockDurations(candidate)
            /\ i' = 0
            /\ last_mock_end' = OwnWindowStart(candidate, last_course_end)
            /\ course_scheduled_events' = <<>>
            /\ sms_ret' = "None"
            /\ pc' = "mock"
    /\ UNCHANGED <<cvars, candidate, calendar, fetch_status, parsed_events, interviewer_avail, candidate_avail,
                   scheduled_events, scheduled_fs_courses, remaining_fs_courses,
                   last_course_end, sop_ret, proc_ret, creates, failures>>

\* sop_schedule after schedule_mock_set returned for the Own course
AfterOwn ==
    /\ pc = "after"
    /\ course = OWN_COURSE
    /\ sop_ret' = IF ~Truthy(sms_ret) THEN "False" ELSE "True"
    /\ pc' = "returned"
    /\ UNCHANGED <<cvars, candidate, calendar, fetch_status, parsed_events, interviewer_avail, candidate_avail,
                   scheduled_events, course_scheduled_events, scheduled_fs_courses,
                   remaining_fs_courses, last_course_end, window_start, course,
                   mock_durations, i, last_mock_end, sms_ret, proc_ret, creates,
                   failures>>

\* process_candidate after sop_schedule returned: "return success"
ProcessReturn ==
    /\ pc = "returned"
    /\ proc_ret' = sop_ret
    /\ pc' = "done"
    /\ UNCHANGED <<cvars, candidate, calendar, fetch_status, parsed_events, interviewer_avail, candidate_avail,
                   scheduled_events, course_scheduled_events, scheduled_fs_courses,
                   remaining_fs_courses, last_course_end, window_start, course,
                   mock_durations, i, last_mock_end, sms_ret, sop_ret, creates,
                   failures>>

Next ==
    \/ ProcessCandidate
    \/ NextCourse
    \/ PlaceMock
    \/ AfterCourse
    \/ StartOwn
    \/ AfterOwn
    \/ ProcessReturn

Spec == Init /\ [][Next]_vars

\* the positions of a run
Positions == {"start", "loop", "mock", "after", "returned", "done", "raised"}

\* the run moves on: it changes its position or goes to its next mock.  Every
\* step of Next is such a step, and one is possible at every position other
\* than "done" and "raised".
Advance ==
    /\ pc \notin {"done", "raised"}
    /\ pc' \in Positions
    /\ i' \in 0..3
    /\ <<pc', i'>> # <<pc, i>>

\* every provider call returns and the event loop keeps running the
\* coroutine: a run that has not returned or raised does not stand still
FairSpec == Spec /\ WF_<<pc, i>>(Advance)

-----------------------------------------------------------------------------
(* The calendar client driven by one thread of control *)

\* a request sent to the provider at time t: what it is, when, how long after
\* the previous request, and whether it is the first since the last reset
Request(op, t) ==
    [op |-> op, at |-> t,
     since_previous |-> IF last_request.op = "none" THEN None ELSE t - last_request.at,
     first_of_run |-> first_of_run]

reset_rate_limit_stats ==
    /\ cpc = "idle"
    /\ ops < MaxOps
    /\ \E gap \in IdleGaps : now' = now + gap
    /\ rate_limit_stats' = ZeroStats
    /\ first_of_run' = TRUE
    /\ cop' = "reset"
    /\ ops' = ops + 1
    /\ UNCHANGED <<last_api_call_time, cpc, cur_attempt, behaviour, insert_calls, retry_delay,
                   result, last_request, provider_events, event_id, co, svars>>

\* fetch_events (op = "list") and delete_event (op = "delete"): the service
\* is built and the request executed at once; any exception becomes an error
\* result
DirectCall(operation, op) ==
    /\ cpc = "idle"
    /\ ops < MaxOps
    /\ \E gap \in IdleGaps, lat \in Latencies, r \in {"ok", "exception", "no_service"} :
          LET sent == r # "no_service"
          IN  /\ now' = now + gap + (IF sent THEN lat ELSE 0)
              /\ last_request' = IF sent THEN Request(op, now + gap) ELSE last_request
              /\ first_of_run' = IF sent THEN FALSE ELSE first_of_run
              /\ result' = IF r = "ok" THEN [status |-> "ok", error |-> ""]
                           ELSE [status |-> "error", error |-> TerminalError(r)]
    /\ cop' = operation
    /\ ops' = ops + 1
    /\ UNCHANGED <<last_api_call_time, rate_limit_stats, cpc, cur_attempt, behaviour,
                   insert_calls, retry_delay, provider_events, event_id, co, svars>>

FetchEventsCall == DirectCall("fetch_events", "list")

delete_event == DirectCall("delete_event", "delete")

\* entry into create_event_with_retry: attempt 0 is about to start
CreateEventCall ==
    /\ cpc = "idle"
    /\ ops < MaxOps
    /\ \E gap \in IdleGaps : now' = now + gap
    /\ behaviour' \in ClientBehaviours
    /\ cop' = "create_event_with_retry"
    /\ ops' = ops + 1
    /\ cur_attempt' = 0
    /\ insert_calls' = 0
    /\ retry_delay' = None
    /\ provider_events' = <<>>
    /\ event_id' = None
    /\ cpc' = "limiter"
    /\ UNCHANGED <<last_api_call_time, rate_limit_stats, result, last_request,
                   first_of_run, co, svars>>

\* rate_limited_sleep at the head of an attempt, and the retry counter
rate_limited_sleep ==
    /\ cpc = "limiter"
    /\ LET time_since_last_call == now - last_api_call_time
           sleep_time == SleepTime(time_since_last_call)
           delayed == IF time_since_last_call < CALENDAR_API_DELAY_SECONDS
                      THEN Bump(rate_limit_stats, "delayed_calls")
                      ELSE rate_limit_stats
           counted == Bump(delayed, "total_calls")
       IN  /\ now' = now + sleep_time
           /\ last_api_call_time' = now + sleep_time
           /\ rate_limit_stats' = IF cur_attempt > 0 THEN Bump(counted, "retry_attempts")
                                  ELSE counted
    /\ cpc' = "insert"
    /\ UNCHANGED <<cop, ops, cur_attempt, behaviour, insert_calls, retry_delay, result,
                   last_request, first_of_run, provider_events, event_id, co, svars>>

\* the rest of an attempt: the service, the insert, the handling of its
\* answer, and the backoff sleep when the loop continues
InsertAttempt ==
    /\ cpc = "insert"
    /\ \E lat \in Latencies :
          LET r == behaviour[cur_attempt + 1]
              retry == r \in Retryable /\ cur_attempt < CALENDAR_API_MAX_RETRIES
              sent == r # "no_service"
          IN  /\ insert_calls' = IF sent THEN insert_calls + 1 ELSE insert_calls
              /\ last_request' = IF sent THEN Request("insert", now) ELSE last_request
              /\ first_of_run' = IF sent THEN FALSE ELSE first_of_run
              /\ rate_limit_stats' =
                     IF r = "ok" THEN Bump(rate_limit_stats, "successful_calls")
                     ELSE CountError(rate_limit_stats, r)
              /\ retry_delay' = IF retry THEN Backoff(r, cur_attempt) ELSE None
              /\ provider_events' = IF r = "ok"
                                    THEN Append(provider_events, EventId(ops, cur_attempt))
                                    ELSE provider_events
              /\ now' = now + (IF sent THEN lat ELSE 0)
                            + (IF retry THEN Backoff(r, cur_attempt) ELSE 0)
              /\ IF retry
                 THEN /\ cur_attempt' = cur_attempt + 1
                      /\ cpc' = "limiter"
                      /\ UNCHANGED <<result, event_id>>
                 ELSE /\ cpc' = "idle"
                      /\ result' = IF r = "ok" THEN [status |-> "ok", error |-> ""]
                                   ELSE [status |-> "error", error |-> TerminalError(r)]
                      /\ event_id' = IF r = "ok" THEN EventId(ops, cur_attempt) ELSE None
                      /\ UNCHANGED cur_attempt
    /\ UNCHANGED <<last_api_call_time, cop, ops, behaviour, co, svars>>

\* no run in progress: the scheduler's variables rest at fixed values
CalInit ==
    /\ candidate = [name |-> CandidateName, email |-> CandidateEmail,
                    timezone |-> "PST", total_days |-> 15, weekday0 |-> 0,
                    weekday_slots |-> <<>>, weekend_slots |-> <<>>]
    /\ calendar = <<>>
    /\ fetch_status = "ok"
    /\ RunIdle
    /\ ClientIdle
    /\ co = NoCoroutines

CalNext ==
    \/ reset_rate_limit_stats
    \/ FetchEventsCall
    \/ delete_event
    \/ CreateEventCall
    \/ rate_limited_sleep
    \/ InsertAttempt

CalSpec == CalInit /\ [][CalNext]_vars

-----------------------------------------------------------------------------
(* calendar_utils.py: the title filter at work *)

\* the titles of test_event_filtering, in its order
test_titles ==
    <<<<"Manish1", Space, Colon, Space, "Kumar", Space, "FS3", Space, "Mock1">>,
      <<"Manish", Space, Colon, Space, "Kumar", Space, "intro", Space, "call">>,
      <<"Manish2", Space, Colon, Space, "Ram", Space, "FS2", Space, "Mock2">>,
      <<"Manish", Space, Colon, Space, "Kumar", Space, "FS4", Space, "Mock4">>,
      <<"Manish3", Space, Colon, Space, "Shaya", Space, "Own", Space, "Mock1">>,
      <<"Manish", Space, Colon, Space, "Kumar", Space, "meeting">>,
      <<"Meeting", Space, "with", Space, "team">>,
      <<"Manish4", Space, Colon, Space, "Nikhil", Space, "FS1", Space, "Mock3">>,
      <<"Manish", Space, Colon, Space, "UnknownInterviewer", Space, "FS1", Space, "Mock1">>>>

\* titles put together from parts: what stands before the colon, the colon
\* with or without whitespace around it or no colon at all, three words with
\* one, two or no whitespace between the first two, and an ending
CandidateParts == {<<>>, <<"Asha">>, <<Space, "asha", Space>>, <<"Bala">>}

ColonParts == {<<Colon>>, <<Space, Colon, Space>>, <<Space>>}

FirstWords == {"Kumar", "kumar", "Harshitha"}

Separators == {<<Space>>, <<Space, Space>>, <<>>}

SecondWords == {"FS3", "FS9"}

ThirdWords == {"Mock1", "Mock4", "mock1"}

Endings == {<<>>, <<Space>>, <<Space, "extra">>}

ComposedTitles ==
    {cp \o col \o <<w1>> \o sep \o <<w2, Space, w3>> \o e :
        cp \in CandidateParts, col \in ColonParts, w1 \in FirstWords, sep \in Separators,
        w2 \in SecondWords, w3 \in ThirdWords, e \in Endings}

\* titles with too few words, a second colon, or nothing at all
OddTitles ==
    {<<>>,
     <<"Asha", Space, Colon>>,
     <<"Asha", Space, Colon, Space, "Kumar", Space, "FS3">>,
     <<"Asha", Space, Colon, Space, "Kumar", Space, "FS3", Space, "Mock1", Colon>>,
     <<"Asha", Space, Colon, Space, "Bala", Space, Colon, Space, "Kumar", Space, "FS3",
       Space, "Mock1">>,
     <<Colon, Space, "Kumar", Space, "FS3", Space, "Mock1">>}

Titles == ComposedTitles \cup OddTitles \cup SeqToSet(test_titles)

\* an item of the list call: 'id', 'summary', attendees and times
Item(id, title) ==
    [id |-> id, title |-> title, required |-> {}, start |-> Hours(18), end |-> Hours(18) + 90]

\* what the calendar lists between time_min and time_max: one session with
\* any of the titles, or three sessions of which the first and the last are
\* mocks of Asha
Listings ==
    {<<Item("e1", t)>> : t \in Titles}
        \cup {<<Item("e1", MockTitle(<<"Asha">>, "Kumar", "FS3", 0)),
                Item("e2", t),
                Item("e3", MockTitle(<<"ASHA">>, "Ram", "FS2", 1))>> :
                  t \in SeqToSet(test_titles)}

\* candidate_name as handed to find_candidate_events
RequestedNames == {<<"Asha">>, <<Space, "ASHA", Space>>, <<"Bala">>}

\* faulty variant: the names are compared as written
NameMatches_AsWritten(parsed_event, candidate_name) ==
    parsed_event.candidate # <<>> /\ parsed_event.candidate = candidate_name

\* parsed_event['candidate'] and
\* parsed_event['candidate'].lower().strip() == candidate_name.lower().strip()
NameMatches(parsed_event, candidate_name) ==
    /\ parsed_event.candidate # <<>>
    /\ strip(lower(parsed_event.candidate)) = strip(lower(candidate_name))

\* the entry find_candidate_events returns for a session
CandidateEvent(event, parsed_event) ==
    [event_id |-> event.id, title |-> parsed_event.title, start |-> parsed_event.start,
     end |-> parsed_event.end, candidate |-> parsed_event.candidate,
     after_colon |-> parsed_event.after_colon]

\* find_candidate_events(calendar_id, candidate['name'], time_min, time_max)
find_candidate_events ==
    /\ pc = "start"
    /\ LET events_result == fetch_events(fetch_status, calendar)
           events == events_result.events
           pe == [k \in 1..Len(events) |-> parse_event(events[k])]
           kept == {k \in 1..Len(events) :
                       pe[k].is_mock_event /\ NameMatches(pe[k], candidate.name)}
           Entry(k) == CandidateEvent(events[k], pe[k])
           RECURSIVE Collect(_)
           Collect(k) == IF k > Len(events) THEN <<>>
                         ELSE (IF k \in kept THEN <<Entry(k)>> ELSE <<>>) \o Collect(k + 1)
       IN  /\ parsed_events' = pe
           /\ result' = IF events_result.status # "ok"
                        THEN [status |-> "error", events |-> <<>>]
                        ELSE [status |-> "ok", events |-> Collect(1)]
    /\ pc' = "found"
    /\ UNCHANGED <<candidate, calendar, fetch_status, interviewer_avail, candidate_avail,
                   scheduled_events, course_scheduled_events, scheduled_fs_courses,
                   remaining_fs_courses, last_course_end, window_start, course,
                   mock_durations, i, last_mock_end, sms_ret, sop_ret, proc_ret,
                   creates, failures>>
    /\ UNCHANGED <<now, last_api_call_time, rate_limit_stats, cpc, cop, ops, cur_attempt,
                   behaviour, insert_calls, retry_delay, last_request, first_of_run,
                   provider_events, event_id, co>>

\* test_event_filtering: the verdict on each of its titles, in order
test_event_filtering ==
    /\ pc = "start"
    /\ result' = [status |-> "tested",
                  events |-> [k \in 1..Len(test_titles) |->
                                 is_mock_interview_event(test_titles[k])]]
    /\ pc' = "tested"
    /\ UNCHANGED <<candidate, calendar, fetch_status, parsed_events, interviewer_avail,
                   candidate_avail, scheduled_events, course_scheduled_events,
                   scheduled_fs_courses, remaining_fs_courses, last_course_end,
                   window_start, course, mock_durations, i, last_mock_end, sms_ret,
                   sop_ret, proc_ret, creates, failures>>
    /\ UNCHANGED <<now, last_api_call_time, rate_limit_stats, cpc, cop, ops, cur_attempt,
                   behaviour, insert_calls, retry_delay, last_request, first_of_run,
                   provider_events, event_id, co>>

\* a caller about to look up the mocks of a candidate by name
FilterInit ==
    /\ candidate \in [name : RequestedNames, email : {CandidateEmail}, timezone : {"PST"},
                      total_days : {15}, weekday0 : {0}, weekday_slots : {<<>>},
                      weekend_slots : {<<>>}]
    /\ calendar \in Listings
    /\ fetch_status \in FetchStatuses
    /\ RunIdle
    /\ ClientIdle
    /\ co = NoCoroutines

FilterNext ==
    \/ find_candidate_events
    \/ test_event_filtering

FilterSpec == FilterInit /\ [][FilterNext]_vars

-----------------------------------------------------------------------------
(* The calendar client called by two coroutines of one event loop *)

\* two candidate runs, each a coroutine of the same event loop
Coroutines == {1, 2}

\* a coroutine between two invocations of create_event_with_retry
Resting == [cpc |-> "idle", wake |-> None, attempt |-> 0, behaviour |-> <<>>,
            status |-> "none"]

\* the provider behaviours met by the coroutines: success at once, a 429 on
\* every attempt, and success after three errors of different classes
CoroutineBehaviours ==
    {Always("ok"), Always("http429"), <<"quota403", "http429", "exception", "ok">>}

ConcInit ==
    /\ candidate = [name |-> CandidateName, email |-> CandidateEmail,
                    timezone |-> "PST", total_days |-> 15, weekday0 |-> 0,
                    weekday_slots |-> <<>>, weekend_slots |-> <<>>]
    /\ calendar = <<>>
    /\ fetch_status = "ok"
    /\ RunIdle
    /\ ClientIdle
    /\ co = [c \in Coroutines |-> Resting]

\* the part of an attempt from the stamp of rate_limited_sleep to the next
\* await: the stamp, the service, the insert and the handling of its answer.
\* Nothing is awaited in between, so no other coroutine runs; the insert is a
\* blocking call and takes its latency from every coroutine.
StampAndInsert(c, attempt, beh, stats) ==
    \E lat \in Latencies :
        LET r == beh[attempt + 1]
            retry == r \in Retryable /\ attempt < CALENDAR_API_MAX_RETRIES
            sent == r # "no_service"
            counted == IF attempt > 0
                       THEN Bump(Bump(stats, "total_calls"), "retry_attempts")
                       ELSE Bump(stats, "total_calls")
            after == now + (IF sent THEN lat ELSE 0)
        IN  /\ last_api_call_time' = now
            /\ last_request' = IF sent THEN Request("insert", now) ELSE last_request
            /\ first_of_run' = IF sent THEN FALSE ELSE first_of_run
            /\ rate_limit_stats' = IF r = "ok" THEN Bump(counted, "successful_calls")
                                   ELSE CountError(counted, r)
            /\ now' = after
            /\ co' = [co EXCEPT ![c] =
                         IF retry
                         THEN [cpc |-> "backoff", wake |-> after + Backoff(r, attempt),
                               attempt |-> attempt + 1, behaviour |-> beh,
                               status |-> "none"]
                         ELSE [Resting EXCEPT !.status =
                                   IF r = "ok" THEN "ok" ELSE "error"]]

\* rate_limited_sleep from its first line to its first await: the coroutine
\* either goes to sleep for the time the stamp it read asks for, or goes on
\* to the stamp and the insert at once
EnterLimiter(c, attempt, beh) ==
    IF now - last_api_call_time < CALENDAR_API_DELAY_SECONDS
    THEN /\ co' = [co EXCEPT ![c] =
                      [cpc |-> "sleeping",
                       wake |-> now + SleepTime(now - last_api_call_time),
                       attempt |-> attempt, behaviour |-> beh, status |-> "none"]]
         /\ rate_limit_stats' = Bump(rate_limit_stats, "delayed_calls")
         /\ UNCHANGED <<now, last_api_call_time, last_request, first_of_run>>
    ELSE StampAndInsert(c, attempt, beh, rate_limit_stats)

\* a coroutine calls create_event_with_retry
CoCreateEvent(c) ==
    /\ co[c].cpc = "idle"
    /\ ops < MaxOps
    /\ ops' = ops + 1
    /\ \E beh \in CoroutineBehaviours : EnterLimiter(c, 0, beh)
    /\ UNCHANGED <<cpc, cop, cur_attempt, behaviour, insert_calls, retry_delay, result,
                   provider_events, event_id, svars>>

\* the sleep of rate_limited_sleep is over: the coroutine takes the stamp and
\* sends its insert
CoLeaveLimiter(c) ==
    /\ co[c].cpc = "sleeping"
    /\ now >= co[c].wake
    /\ StampAndInsert(c, co[c].attempt, co[c].behaviour, rate_limit_stats)
    /\ UNCHANGED <<cpc, cop, ops, cur_attempt, behaviour, insert_calls, retry_delay,
                   result, provider_events, event_id, svars>>

\* the backoff sleep is over: the loop of create_event_with_retry continues
\* with rate_limited_sleep
CoRetry(c) ==
    /\ co[c].cpc = "backoff"
    /\ now >= co[c].wake
    /\ EnterLimiter(c, co[c].attempt, co[c].behaviour)
    /\ UNCHANGED <<cpc, cop, ops, cur_attempt, behaviour, insert_calls, retry_delay,
                   result, provider_events, event_id, svars>>

\* every coroutine that is in a sleep has time left: the event loop waits for
\* the earliest of them
EventLoopWaits ==
    /\ \E c \in Coroutines : co[c].cpc \in {"sleeping", "backoff"}
    /\ \A c \in Coroutines : co[c].cpc \in {"sleeping", "backoff"} => co[c].wake > now
    /\ now' = SetMin({co[c].wake : c \in {d \in Coroutines :
                                              co[d].cpc \in {"sleeping", "backoff"}}})
    /\ UNCHANGED <<last_api_call_time, rate_limit_stats, cpc, cop, ops, cur_attempt,
                   behaviour, insert_calls, retry_delay, result, last_request,
                   first_of_run, provider_events, event_id, co, svars>>

ConcNext ==
    \/ \E c \in Coroutines : CoCreateEvent(c)
    \/ \E c \in Coroutines : CoLeaveLimiter(c)
    \/ \E c \in Coroutines : CoRetry(c)
    \/ EventLoopWaits

ConcSpec == ConcInit /\ [][ConcNext]_vars

-----------------------------------------------------------------------------
(* The intake of a name, a mock written under it, and a later run reading it *)

\* what the operator types when asked for the candidate's full name
TypedNames ==
    {<<>>, <<Space>>, <<"Asha">>, <<Space, "Asha", Space>>, <<"Asha", Space, "Rao">>,
     <<"Asha", Colon, Space, "Rao">>}

IntakeInit ==
    /\ candidate = [name |-> <<>>, email |-> CandidateEmail, timezone |-> "EST",
                    total_days |-> 9, weekday0 |-> 0,
                    weekday_slots |-> <<<<TimeHM(17, 0), TimeHM(23, 30)>>>>,
                    weekend_slots |-> <<<<TimeHM(8, 0), TimeHM(23, 30)>>>>]
    /\ calendar = <<>>
    /\ fetch_status = "ok"
    /\ parsed_events = <<>>
    /\ interviewer_avail = [n \in Names |-> <<>>]
    /\ candidate_avail = [days |-> {}, busy |-> <<>>]
    /\ scheduled_events = <<>>
    /\ course_scheduled_events = <<>>
    /\ scheduled_fs_courses = <<>>
    /\ remaining_fs_courses = <<>>
    /\ last_course_end = None
    /\ window_start = 0
    /\ course = ""
    /\ mock_durations = <<>>
    /\ i = 0
    /\ last_mock_end = 0
    /\ sms_ret = "None"
    /\ sop_ret = "None"
    /\ proc_ret = "None"
    /\ pc = "intake"
    /\ creates = 0
    /\ failures = 0
    /\ ClientIdle
    /\ co = NoCoroutines

\* telegram_bot.py get_name: the text is stripped; an empty name is asked for
\* again, any other is stored
get_name ==
    /\ pc = "intake"
    /\ \E text \in TypedNames :
          IF strip(text) = <<>>
          THEN UNCHANGED <<candidate, pc>>
          ELSE /\ candidate' = [candidate EXCEPT !.name = strip(text)]
               /\ pc' = "named"
    /\ UNCHANGED <<cvars, calendar, fetch_status, parsed_events, interviewer_avail,
                   candidate_avail, scheduled_events, course_scheduled_events,
                   scheduled_fs_courses, remaining_fs_courses, last_course_end,
                   window_start, course, mock_durations, i, last_mock_end, sms_ret,
                   sop_ret, proc_ret, creates, failures>>

\* schedule_mock_set writing one mock of a course with one of the course's
\* interviewers: the title, the required attendees, and the event on the
\* calendar afterwards
WriteMockEvent ==
    /\ pc = "named"
    /\ \E c \in SeqToSet(COURSES), idx \in 0..2, day \in 0..1 :
       \E n \in {MAIN_INTERVIEWERS[c]} \cup SeqToSet(BACKUP_INTERVIEWERS[c]) :
          calendar' = <<Event(MockTitle(candidate.name, n, c, idx),
                              {candidate.email, EMAIL[n]},
                              Midnight(day) + Hours(19), Midnight(day) + Hours(19) + 90)>>
    /\ pc' = "start"
    /\ UNCHANGED <<cvars, candidate, fetch_status, parsed_events, interviewer_avail,
                   candidate_avail, scheduled_events, course_scheduled_events,
                   scheduled_fs_courses, remaining_fs_courses, last_course_end,
                   window_start, course, mock_durations, i, last_mock_end, sms_ret,
                   sop_ret, proc_ret, creates, failures>>

IntakeNext ==
    \/ get_name
    \/ WriteMockEvent
    \/ ProcessCandidate

IntakeSpec == IntakeInit /\ [][IntakeNext]_vars

-----------------------------------------------------------------------------
(* Properties *)

Committed == 1..Len(scheduled_events)

Mock(k) == scheduled_events[k]

\* the sessions of the calendar as the run parses them
ParsedCalendar == [k \in 1..Len(calendar) |-> parse_event(calendar[k])]

\* the busy intervals the calendar held for interviewer n before the run
OriginalBusy(n) == build_interviewer_availability(ParsedCalendar)[n]

\* the mocks of the candidate that were on the calendar before the run
OriginalCandidateBusy == build_candidate_availability(ParsedCalendar, candidate).busy

Dates == 0..candidate.total_days

\* mocks of interviewer n on date d: calendar sessions plus this run's commits
MocksOn(n, d) ==
    Cardinality({k \in 1..Len(OriginalBusy(n)) : Date(OriginalBusy(n)[k][1]) = d})
    + Cardinality({k \in Committed : Mock(k).interviewer = n /\ Date(Mock(k).start) = d})

\* the duration list sop_schedule hands to schedule_mock_set for course c
DurationsOf(c) ==
    IF c = OWN_COURSE THEN OwnMockDurations(candidate)
    ELSE MockDurationsFor(candidate, c,
             IF scheduled_fs_courses # <<>> /\ scheduled_fs_courses[1] = c
             THEN <<>> ELSE <<c>>)

CommittedOf(c) == {k \in Committed : Mock(k).course = c}

FullyCommitted(c) == Cardinality(CommittedOf(c)) = Len(DurationsOf(c))

\* the busy list process_candidate built for interviewer n from what it fetched
FetchedBusy(n) == build_interviewer_availability(parsed_events)[n]

\* the mock schedule_mock_set is about to place when pc = "mock": the busy
\* lists it consults, its lower bound and its duration
PendingAvail ==
    UpdatedAvail(interviewer_avail, scheduled_events \o course_scheduled_events)

PendingStart == EarliestStart(i, last_mock_end, window_start)

PendingDuration == mock_durations[i + 1]

\* the dates the day loop of schedule_mock_set visits at most
HorizonDays == Date(PendingStart)..Date(EndDate(candidate))

\* some cursor of `day` passes the candidate's tests and the tests of some
\* interviewer of the list
FeasibleOn(interviewers, day) ==
    \E t \in DayCursors(day, PendingStart) :
        /\ CandidateCursorOk(candidate, candidate_avail, t, PendingDuration)
        /\ \E k \in 1..Len(interviewers) :
              check_interviewer_avail(candidate, interviewers[k], PendingAvail, t,
                                      t + PendingDuration,
                                      get_day_type(candidate, t), parsed_events)

PendingFeasible ==
    \E d \in HorizonDays :
        \/ FeasibleOn(main_interviewers_list(course), d)
        \/ FeasibleOn(backup_interviewers_list(course), d)

\* C1: two distinct committed mocks of the same interviewer name never
\* overlap, and no committed mock overlaps a session the busy map built from
\* the fetched events held for its interviewer, also when the name serves
\* several courses or is main for one course and backup for another.
C1_NoInterviewerDoubleBooking ==
    /\ \A a, b \in Committed :
          (a # b /\ Mock(a).interviewer = Mock(b).interviewer)
              => ~Overlaps(Mock(a).start, Mock(a).end, Mock(b).start, Mock(b).end)
    /\ \A a \in Committed :
          \A k \in 1..Len(FetchedBusy(Mock(a).interviewer)) :
              ~Overlaps(Mock(a).start, Mock(a).end,
                        FetchedBusy(Mock(a).interviewer)[k][1],
                        FetchedBusy(Mock(a).interviewer)[k][2])

\* one name holds committed mocks of two courses, one of them on a date on
\* which the calendar already held a session of that name
C1_Witness ==
    \E a, b \in Committed :
        /\ Mock(a).interviewer = Mock(b).interviewer
        /\ Mock(a).course # Mock(b).course
        /\ \E k \in 1..Len(FetchedBusy(Mock(a).interviewer)) :
              Date(FetchedBusy(Mock(a).interviewer)[k][1]) = Date(Mock(a).start)

\* C2: for every interviewer and every date, calendar mocks plus committed
\* mocks on that date never exceed MAX_MOCKS_PER_INTERVIEWER_PER_DAY.
C2_DailyCap ==
    \A n \in Names : \A d \in Dates :
        MocksOn(n, d) <= MAX_MOCKS_PER_INTERVIEWER_PER_DAY

\* C3: every committed mock starts and ends on the same date.
C3_NoMidnightCrossing ==
    \A k \in Committed : Date(Mock(k).start) = Date(Mock(k).end)

\* a mock is committed on a date on which the candidate's window also holds a
\* later cursor from which the same duration would run past midnight
C3_Witness ==
    \E k \in Committed :
        \E t \in DayCursors(Date(Mock(k).start), Mock(k).start) :
            /\ time_in_slot(candidate, t)
            /\ CrossesMidnight(t, t + (Mock(k).end - Mock(k).start))

\* C4: consecutive mocks of one course are at least MIN_GAP_HOURS apart,
\* measured from the end of the first to the start of the second.
C4_GapWithinCourse ==
    \A a, b \in Committed :
        (Mock(a).course = Mock(b).course /\ Mock(b).index = Mock(a).index + 1)
            => Mock(b).start >= Mock(a).end + Hours(MIN_GAP_HOURS)

\* a course has its first mock with the main interviewer and its second with
\* a backup
C4_Witness ==
    \E a, b \in Committed :
        /\ Mock(a).course = Mock(b).course
        /\ Mock(b).index = Mock(a).index + 1
        /\ Mock(a).type = "main"
        /\ Mock(b).type = "backup"

\* C5: no committed mock overlaps another committed mock of the run or a
\* mock of the candidate that was already on the calendar.
C5_NoCandidateOverlap ==
    /\ \A a, b \in Committed :
          a # b => ~Overlaps(Mock(a).start, Mock(a).end, Mock(b).start, Mock(b).end)
    /\ \A a \in Committed :
          \A k \in 1..Len(OriginalCandidateBusy) :
              ~Overlaps(Mock(a).start, Mock(a).end,
                        OriginalCandidateBusy[k][1], OriginalCandidateBusy[k][2])

\* C6: once schedule_mock_set has returned calendar_quota_exceeded or
\* calendar_rate_limited, the run does nothing but hand that classification
\* up: sop_schedule returns it and then process_candidate returns it.
C6_ClassificationPropagates ==
    sms_ret \in {"calendar_quota_exceeded", "calendar_rate_limited"}
        => /\ pc \in {"after", "returned", "done"}
           /\ pc \in {"returned", "done"} => sop_ret = sms_ret
           /\ pc = "done" => proc_ret = sms_ret

\* C7: once a create call has ended in a terminal error, the run issues no
\* further create_event_with_retry call.
C7_NoCreateAfterError == [][failures > 0 => creates' = creates]_vars

\* C8: sop_schedule returns True only if every mock of every course was
\* committed and no create call failed.
C8_TrueOnlyIfAllCommitted ==
    sop_ret = "True"
        => (failures = 0 /\ \A k \in 1..Len(COURSES) : FullyCommitted(COURSES[k]))

\* C9: the Own course has a committed mock only if every mock of each of the
\* other courses has been committed.
C9_OwnOnlyAfterAllOthers ==
    CommittedOf(OWN_COURSE) # {}
        => \A k \in 1..Len(FS_COURSES) : FullyCommitted(FS_COURSES[k])

\* C10: the first mock of the Own course starts no earlier than the end of
\* any committed mock of another course plus the inter-course gap of the
\* mode: 12 hours in short mode, midnight of the date two days after that
\* end's date in long mode.
C10_OwnAfterGap ==
    \A a, b \in Committed :
        (Mock(a).course = OWN_COURSE /\ Mock(a).index = 0 /\ Mock(b).course # OWN_COURSE)
            => Mock(a).start >=
                   (IF calculate_calendar_days(candidate) >= 16
                    THEN Midnight(Date(Mock(b).end) + 2)
                    ELSE Mock(b).end + Hours(12))

\* the Own course's first mock is committed in a long-mode run after mocks
\* of other courses
C10_Witness ==
    /\ calculate_calendar_days(candidate) >= 16
    /\ \E a, b \in Committed :
          Mock(a).course = OWN_COURSE /\ Mock(a).index = 0 /\ Mock(b).course # OWN_COURSE

\* C11: when no (slot, interviewer) pair is feasible for the mock being
\* placed, schedule_mock_set returns False without a create call; once it has
\* returned False, sop_schedule returns False and no create call follows.
C11_InfeasibleReturnsFalse ==
    [][/\ (pc = "mock" /\ ~PendingFeasible)
            => (sms_ret' = "False" /\ creates' = creates)
       /\ sms_ret = "False"
            => (creates' = creates /\ sms_ret' = "False" /\ sop_ret' = "False")]_vars

\* a run that committed mocks and then ended on an infeasible mock
C11_Witness ==
    /\ pc = "done"
    /\ sms_ret = "False"
    /\ proc_ret = "False"
    /\ scheduled_events # <<>>

\* C17: when fetch_events returned status 'error', the run is treated as
\* failed: sop_schedule never enters schedule_mock_set, no create call is
\* issued and the run does not report success.
C17_FetchFailureIsFatal ==
    fetch_status = "error"
        => /\ pc \notin {"mock", "after"}
           /\ creates = 0
           /\ proc_ret # "True"

\* a create_event_with_retry invocation has returned
CreateReturned == cop = "create_event_with_retry" /\ cpc = "idle"

\* the terminal classification of a retryable class
ExhaustedError(c) ==
    IF c = "quota403" THEN "calendar_quota_exceeded"
    ELSE IF c = "http429" THEN "calendar_rate_limited"
    ELSE "Exception"

\* C12: when the provider fails every attempt of one invocation with the
\* same retryable class, the client issues exactly CALENDAR_API_MAX_RETRIES + 1
\* insert calls (the first attempt and CALENDAR_API_MAX_RETRIES retries), then
\* returns the terminal classification of that class; no insert call is made
\* beyond that number.
C12_ExhaustsAfterAllAttempts ==
    /\ insert_calls <= CALENDAR_API_MAX_RETRIES + 1
    /\ \A c \in {"quota403", "http429", "exception"} :
          (CreateReturned /\ behaviour = Always(c))
              => /\ insert_calls = CALENDAR_API_MAX_RETRIES + 1
                 /\ result = [status |-> "error", error |-> ExhaustedError(c)]

\* an invocation answered 429 on every attempt has returned
C12_Witness ==
    /\ CreateReturned
    /\ behaviour = Always("http429")
    /\ result.error = "calendar_rate_limited"
    /\ rate_limit_stats.retry_attempts >= CALENDAR_API_MAX_RETRIES

\* C12 as stated: the invocation ends after CALENDAR_API_MAX_RETRIES insert
\* calls.
C12_ExhaustsAfterMaxRetriesCalls ==
    \A c \in {"quota403", "http429", "exception"} :
        (CreateReturned /\ behaviour = Always(c))
            => /\ insert_calls = CALENDAR_API_MAX_RETRIES
               /\ result = [status |-> "error", error |-> ExhaustedError(c)]

\* C13: when an attempt is answered by an HttpError that is neither a 403
\* quota error nor a 429, the invocation returns an error result at once: no
\* sleep, no further insert attempt, and the error is one the scheduler maps
\* to calendar_event_error.
C13_NonRetryableFailsAtOnce ==
    [][(cpc = "insert" /\ behaviour[cur_attempt + 1] = "http_other")
          => /\ cpc' = "idle"
             /\ insert_calls' = insert_calls + 1
             /\ retry_delay' = None
             /\ now' - now \in Latencies
             /\ result'.status = "error"
             /\ Classify(result'.error) = "calendar_event_error"]_vars

\* an invocation has returned on a non-retryable error met by a retry
C13_Witness ==
    /\ CreateReturned
    /\ behaviour[2] = "http_other"
    /\ insert_calls = 2
    /\ result.status = "error"

\* C14: the backoff wait after a failed attempt with 0-based index a below
\* CALENDAR_API_MAX_RETRIES is 5*2^a seconds (5, 10, 20) after a quota error,
\* 3*2^a seconds (3, 6, 12) after a 429 and 2*(a+1) seconds (2, 4, 6) after
\* any other exception; no backoff wait follows the last attempt.
C14_BackoffSchedule ==
    [][cpc = "insert"
          => LET r == behaviour[cur_attempt + 1]
                 slept == now' - now
             IN  /\ (r = "quota403" /\ cur_attempt < CALENDAR_API_MAX_RETRIES)
                        => /\ retry_delay' = <<5, 10, 20>>[cur_attempt + 1]
                           /\ slept - retry_delay' \in Latencies
                 /\ (r = "http429" /\ cur_attempt < CALENDAR_API_MAX_RETRIES)
                        => /\ retry_delay' = <<3, 6, 12>>[cur_attempt + 1]
                           /\ slept - retry_delay' \in Latencies
                 /\ (r = "exception" /\ cur_attempt < CALENDAR_API_MAX_RETRIES)
                        => /\ retry_delay' = <<2, 4, 6>>[cur_attempt + 1]
                           /\ slept - retry_delay' \in Latencies
                 /\ cur_attempt = CALENDAR_API_MAX_RETRIES
                        => /\ retry_delay' = None
                           /\ slept \in Latencies
                           /\ cpc' = "idle"]_vars

\* the third failed attempt of an invocation was a quota error: the longest
\* backoff has been slept and the last attempt is about to start
C14_Witness ==
    /\ cpc = "limiter"
    /\ cur_attempt = CALENDAR_API_MAX_RETRIES
    /\ behaviour[cur_attempt] = "quota403"
    /\ retry_delay = 20

\* C15: two consecutive insert attempts of create_event_with_retry, of one
\* invocation or of successive invocations, also across a reset of the
\* statistics, are at least CALENDAR_API_DELAY_SECONDS apart.  An attempt is
\* timed at the stamp rate_limited_sleep takes when it releases the attempt.
C15_MinDelayBetweenInserts ==
    [][/\ cpc = "limiter"
            => /\ last_api_call_time' - last_api_call_time >= CALENDAR_API_DELAY_SECONDS
               /\ last_api_call_time' = now'
       /\ (cpc = "insert" /\ insert_calls' # insert_calls)
            => /\ last_request'.at = last_api_call_time
               /\ last_request.op = "insert"
                     => last_request'.at - last_request.at >= CALENDAR_API_DELAY_SECONDS]_vars

\* the first insert after a reset was held back by the limiter and sent
\* exactly the minimum delay after the previous request
C15_Witness ==
    /\ last_request.op = "insert"
    /\ last_request.first_of_run
    /\ last_request.since_previous = CALENDAR_API_DELAY_SECONDS
    /\ rate_limit_stats.delayed_calls = 1

\* C16: a request of fetch_events or delete_event is sent no sooner than
\* CALENDAR_API_DELAY_SECONDS after the previous request to the provider, and
\* the last-call timestamp is brought up to the time of the request.
C16_FetchDeleteObserveDelay ==
    last_request.op \in {"list", "delete"}
        => /\ last_request.since_previous = None
                \/ last_request.since_previous >= CALENDAR_API_DELAY_SECONDS
           /\ last_api_call_time >= last_request.at

\* reset_rate_limit_stats zeroes the six counters and keeps the timestamp
ResetFrame ==
    (ops' = ops + 1 /\ cop' = "reset")
        => /\ \A key \in {"total_calls", "delayed_calls", "retry_attempts",
                           "quota_errors", "rate_limit_errors", "successful_calls"} :
                 rate_limit_stats'[key] = 0
           /\ last_api_call_time' = last_api_call_time

\* the request just sent is the first since a reset and follows an earlier
\* request
FirstRequestOfRun(op) ==
    /\ last_request' # last_request
    /\ last_request'.op = op
    /\ last_request'.first_of_run
    /\ last_request.op # "none"

\* C18: reset_rate_limit_stats sets the six counters to zero and leaves the
\* last-call timestamp unchanged, and the first calendar call after a reset
\* is sent no sooner than CALENDAR_API_DELAY_SECONDS after the last call
\* before it.
C18_ResetKeepsTimestamp ==
    [][/\ ResetFrame
       /\ \A op \in {"insert", "list", "delete"} :
              FirstRequestOfRun(op)
                  => last_request'.at - last_request.at >= CALENDAR_API_DELAY_SECONDS]_vars

\* the part of C18 that does not depend on fetch_events and delete_event:
\* the frame of the reset, and the wait of the first insert after a reset
\* measured from the last stamp of the limiter
C18_ResetKeepsTimestampForInserts ==
    [][/\ ResetFrame
       /\ (FirstRequestOfRun("insert") /\ last_request.op = "insert")
              => last_request'.at - last_request.at >= CALENDAR_API_DELAY_SECONDS]_vars

\* the step commits the mock schedule_mock_set was placing, with an
\* interviewer of the given type
Commits(type) ==
    /\ pc = "mock"
    /\ Len(scheduled_events') = Len(scheduled_events) + 1
    /\ scheduled_events'[Len(scheduled_events')].type = type

\* C19: schedule_mock_set assigns a backup interviewer to a mock only if no
\* main-interviewer placement is feasible on any day from the mock's lower
\* bound to the end of the horizon.
C19_BackupOnlyIfNoMainInHorizon ==
    [][Commits("backup")
          => \A d \in HorizonDays : ~FeasibleOn(main_interviewers_list(course), d)]_vars

\* the probe of the course loop when pc = "loop": its lower bound, and
\* find_earliest_mock_slot called for course c with the main and the backup
\* interviewers in one list
ProbeStart == LoopWindowStart(candidate, last_course_end)

CombinedProbe(c) ==
    find_earliest_mock_slot(candidate, candidate_avail, interviewer_avail, parsed_events,
                            ProbeStart,
                            main_interviewers_list(c) \o backup_interviewers_list(c),
                            90, scheduled_events, c)

\* cursor t of the probe passes the tests of the main interviewer of c
MainPasses(c, t) ==
    check_interviewer_avail(candidate, MAIN_INTERVIEWERS[c],
                            UpdatedAvail(interviewer_avail, scheduled_events), t, t + 90,
                            get_day_type(candidate, t), parsed_events)

\* main_interviewer_slots of the probe is not empty
MainBucketFilled(c) ==
    \E d \in Date(ProbeStart)..Date(EndDate(candidate)) :
        \E t \in ProbeCursors(candidate, ProbeStart, d) :
            /\ CandidateCursorOk(candidate, candidate_avail, t, 90)
            /\ MainPasses(c, t)

\* the probe of course c returns a cursor that only a backup passes
ProbeReturnsBackup(c) ==
    \E r \in {CombinedProbe(c)} : r # None /\ ~MainPasses(c, r)

\* C20: within one probe a backup placement is never returned when a main
\* placement is feasible: schedule_mock_set commits a backup on a day only if
\* no cursor of that day is feasible for a main interviewer, and
\* find_earliest_mock_slot returns a cursor of the backup bucket only if the
\* main bucket is empty.
C20_MainBeforeBackupInProbe ==
    [][/\ Commits("backup")
            => ~FeasibleOn(main_interviewers_list(course),
                           Date(scheduled_events'[Len(scheduled_events')].start))
       /\ pc = "loop"
            => \A k \in 1..Len(remaining_fs_courses) :
                  ProbeReturnsBackup(remaining_fs_courses[k])
                      => ~MainBucketFilled(remaining_fs_courses[k])]_vars

\* a backup has been committed, and the probe of a remaining course returns
\* a cursor of the backup bucket
C20_Witness ==
    /\ pc = "loop"
    /\ \E a \in Committed : Mock(a).type = "backup"
    /\ \E k \in 1..Len(remaining_fs_courses) : ProbeReturnsBackup(remaining_fs_courses[k])

\* the cursors of `day` that pass the candidate's tests and the tests of some
\* interviewer of the list, for the mock schedule_mock_set is about to place
FeasibleCursors(interviewers, day) ==
    {t \in DayCursors(day, PendingStart) :
        /\ CandidateCursorOk(candidate, candidate_avail, t, PendingDuration)
        /\ \E k \in 1..Len(interviewers) :
              check_interviewer_avail(candidate, interviewers[k], PendingAvail, t,
                                      t + PendingDuration,
                                      get_day_type(candidate, t), parsed_events)}

\* the interviewers of the round a committed mock came from
RoundList(type) ==
    IF type = "main" THEN main_interviewers_list(course)
    ELSE backup_interviewers_list(course)

\* the candidate's timezone is PST, in any letter case, or is not given
PrefersLatest == candidate.timezone \in {"PST", "pst", Absent}

\* C21: the start of each mock schedule_mock_set commits is, among the
\* feasible cursors of the winning round on the selected day, the latest one
\* when the candidate's timezone is PST or absent and the earliest one for
\* every other timezone.
C21_DirectionalChoice ==
    [][(pc = "mock" /\ Len(scheduled_events') = Len(scheduled_events) + 1)
          => \E m \in {scheduled_events'[Len(scheduled_events')]} :
             \E round \in {FeasibleCursors(RoundList(m.type), Date(m.start))} :
                 /\ m.start \in round
                 /\ \A t \in round :
                       IF PrefersLatest THEN t <= m.start ELSE t >= m.start]_vars

\* the first mock of a run without a timezone is committed although an
\* earlier cursor of the same day was feasible for the same interviewer
C21_Witness ==
    /\ candidate.timezone = Absent
    /\ scheduled_events # <<>>
    /\ \E t \in DayCursors(Date(Mock(1).start), 0) :
          /\ t < Mock(1).start
          /\ CandidateCursorOk(candidate, candidate_avail, t, Mock(1).end - Mock(1).start)
          /\ check_interviewer_avail(candidate, Mock(1).interviewer,
                                     build_interviewer_availability(parsed_events), t,
                                     t + (Mock(1).end - Mock(1).start),
                                     get_day_type(candidate, t), parsed_events)

\* the interviewers a round of the course loop probes for course c
ProbeList(c, round) ==
    IF round = 1 THEN main_interviewers_list(c) ELSE backup_interviewers_list(c)

\* updated_interviewer_avail of the probes at the head of the course loop
ProbeAvail == UpdatedAvail(interviewer_avail, scheduled_events)

\* the cursors of `day`, counted from the probe's lower bound, at which a
\* 90-minute first mock of course c passes the candidate's tests and the
\* tests of an interviewer of the round
ProbeFeasibleOn(c, round, day, avail) ==
    {t \in ProbeCursors(candidate, ProbeStart, day) :
        /\ CandidateCursorOk(candidate, candidate_avail, t, 90)
        /\ \E k \in 1..Len(ProbeList(c, round)) :
              check_interviewer_avail(candidate, ProbeList(c, round)[k], avail,
                                      t, t + 90, get_day_type(candidate, t), parsed_events)}

\* the earliest feasible first-mock start of course c from the window lower
\* bound, None when there is none
RECURSIVE EarliestFeasibleFrom(_, _, _, _)
EarliestFeasibleFrom(c, round, day, avail) ==
    IF day > Date(EndDate(candidate)) THEN None
    ELSE LET today == ProbeFeasibleOn(c, round, day, avail)
         IN  IF today # {} THEN SetMin(today)
             ELSE EarliestFeasibleFrom(c, round, day + 1, avail)

EarliestFeasible(c, round, avail) ==
    EarliestFeasibleFrom(c, round, Date(ProbeStart), avail)

\* the earliest feasible starts of the remaining courses in the round, by
\* position in the remaining list
EarliestStartsIn(round, avail) ==
    [k \in 1..Len(remaining_fs_courses) |->
        EarliestFeasible(remaining_fs_courses[k], round, avail)]

\* the positions that have a feasible start
WithSlot(starts) == {k \in DOMAIN starts : starts[k] # None}

\* position p holds a minimal start, and is the first position that does
Minimal(starts, p) ==
    /\ starts[p] # None
    /\ \A q \in WithSlot(starts) :
          starts[p] < starts[q] \/ (starts[p] = starts[q] /\ p <= q)

\* the course loop picks a course in this step
PicksCourse == pc = "loop" /\ remaining_fs_courses # <<>> /\ pc' = "mock"

\* C22: at each iteration of the course loop the course chosen is a remaining
\* course whose earliest feasible first-mock start from the window lower
\* bound is minimal among the remaining courses, for every timezone; of two
\* courses with the same start the one earlier in the remaining list wins.
C22_PicksEarliestCourse ==
    [][PicksCourse
          => \E avail \in {ProbeAvail} :
             \E mains \in {EarliestStartsIn(1, avail)} :
             \E p \in 1..Len(remaining_fs_courses) :
                /\ course' = remaining_fs_courses[p]
                /\ IF WithSlot(mains) # {} THEN Minimal(mains, p)
                   ELSE \E backups \in {EarliestStartsIn(2, avail)} :
                           Minimal(backups, p)]_vars

\* the step picks a course at one of the positions
PicksAmong(positions) ==
    /\ pc' = "mock"
    /\ \E p \in positions : course' = remaining_fs_courses[p]

\* C23: the course loop chooses a course on a backup probe (Round 2) only
\* when no remaining course has a main probe result (Round 1): while some
\* main has a slot the chosen course is one whose main has a slot; when no
\* main has any, the chosen course is one whose backups have a slot, and if
\* that holds for one course only, that course is chosen.
C23_Round2OnlyWithoutRound1 ==
    [][(pc = "loop" /\ remaining_fs_courses # <<>>)
          => \E avail \in {ProbeAvail} :
             \E mains \in {EarliestStartsIn(1, avail)} :
                IF WithSlot(mains) # {} THEN PicksAmong(WithSlot(mains))
                ELSE \E backups \in {EarliestStartsIn(2, avail)} :
                        WithSlot(backups) # {} => PicksAmong(WithSlot(backups))]_vars

\* a course has just been chosen on its backup probe, the only remaining
\* course with any slot, no main of a remaining course having one
C23_Witness ==
    /\ pc = "mock"
    /\ course # OWN_COURSE
    /\ i = 0
    /\ course_scheduled_events = <<>>
    /\ sms_ret = "None"
    /\ \E avail \in {ProbeAvail} :
          /\ WithSlot(EarliestStartsIn(1, avail)) = {}
          /\ \E backups \in {EarliestStartsIn(2, avail)} :
                 \E p \in 1..Len(remaining_fs_courses) :
                     WithSlot(backups) = {p} /\ course = remaining_fs_courses[p]

\* a committed mock as parse_event gives it once it is on the calendar: the
\* title is "<candidate> : <interviewer> <course> Mock<i+1>" and the required
\* attendees are the candidate and the interviewer
CommittedSession(m) ==
    parse_event(Event(MockTitle(candidate.name, m.interviewer, m.course, m.index),
                      {candidate.email, EMAIL[m.interviewer]}, m.start, m.end))

\* the original sessions together with this run's committed mocks
SessionsWithCommits ==
    parsed_events \o [k \in 1..Len(scheduled_events) |-> CommittedSession(scheduled_events[k])]

\* two lists hold the same intervals the same number of times
SameCollection(a, b) ==
    \A x \in SeqToSet(a) \cup SeqToSet(b) :
        Cardinality({k \in 1..Len(a) : a[k] = x}) = Cardinality({k \in 1..Len(b) : b[k] = x})

\* the interviewer map in memory against the rebuilt one, date by date
InterviewerMapRebuilt ==
    \E rebuilt \in {build_interviewer_availability(SessionsWithCommits)} :
        \A n \in Names : \A day \in 0..(candidate.total_days - 1) :
            SameCollection(BusySlots(interviewer_avail, n, day), BusySlots(rebuilt, n, day))

\* the candidate map in memory against the rebuilt one
CandidateMapRebuilt ==
    \E rebuilt \in {build_candidate_availability(SessionsWithCommits, candidate)} :
        /\ candidate_avail.days = rebuilt.days
        /\ SameCollection(candidate_avail.busy, rebuilt.busy)

\* C24: after any sequence of commits in a run the interviewer map and the
\* candidate map held in memory equal, date by date and as collections of
\* intervals, the maps build_interviewer_availability and
\* build_candidate_availability give for the original sessions together with
\* the mocks committed so far.
C24_MapsEqualRebuilt ==
    pc # "start" => (InterviewerMapRebuilt /\ CandidateMapRebuilt)

\* the interviewer half of C24 alone
C24_InterviewerMapEqualsRebuilt == pc # "start" => InterviewerMapRebuilt

\* the grammar "<Candidate> : <InterviewerName> <CourseId> Mock<N>" with the
\* interviewer name taken from `names`, stated on the positions of a title:
\* c is the first colon, something other than whitespace stands before it,
\* and p1, p2, p3 are the only places after it that hold something other than
\* whitespace, with whitespace between them
TitleGrammarWith(title, names) ==
    \E c \in 1..Len(title) :
        /\ title[c] = Colon
        /\ \A j \in 1..(c - 1) : title[j] # Colon
        /\ \E j \in 1..(c - 1) : title[j] # Space
        /\ \E p1, p2, p3 \in (c + 1)..Len(title) :
              /\ p1 + 1 < p2
              /\ p2 + 1 < p3
              /\ {j \in (c + 1)..Len(title) : title[j] # Space} = {p1, p2, p3}
              /\ title[p1] \in names
              /\ title[p2] \in SeqToSet(COURSES)
              /\ title[p3] \in {"Mock1", "Mock2", "Mock3"}

TitleGrammar(title) == TitleGrammarWith(title, Names)

\* the calendar holds a session whose title is not a mock-interview title
HasNonMockSession == \E k \in 1..Len(calendar) : ~TitleGrammar(calendar[k].title)

\* what the run parses when the sessions without a mock-interview title are
\* taken off the calendar
MocksOnlyParsed ==
    LET events == fetch_events(fetch_status,
                               SelectSeq(calendar, LAMBDA x : TitleGrammar(x.title))).events
    IN  [k \in 1..Len(events) |-> parse_event(events[k])]

\* check_interviewer_avail gives the same answers on both lists for every
\* interviewer of the course and every cursor of the date the next mock may
\* start on
SameFeasibility(other) ==
    \E start \in {EarliestStart(i, last_mock_end, window_start)} :
    \E avail \in {UpdatedAvail(interviewer_avail, scheduled_events \o course_scheduled_events)} :
        \A n \in SeqToSet(main_interviewers_list(course) \o backup_interviewers_list(course)) :
        \A t \in DayCursors(Date(start), start) :
            \A end \in {t + mock_durations[i + 1]} :
                check_interviewer_avail(candidate, n, avail, t, end,
                                        get_day_type(candidate, t), parsed_events)
                    <=> check_interviewer_avail(candidate, n, avail, t, end,
                                                get_day_type(candidate, t), other)

\* C26: sessions whose titles are not mock-interview titles cannot influence
\* scheduling.  When the sessions fetched include such sessions, whatever
\* their attendees and times, every step of the run is the step taken on the
\* same sessions without them: the busy maps built are the same, the course
\* chosen is the same, check_interviewer_avail answers the same, and the
\* slot and interviewer found for the next mock are the same.
C26_NonMockSessionsInvisible ==
    [][(HasNonMockSession /\ fetch_status = "ok") =>
          \E other \in {MocksOnlyParsed} :
              /\ pc = "start" =>
                    /\ interviewer_avail' = build_interviewer_availability(other)
                    /\ candidate_avail' = build_candidate_availability(other, candidate)
              /\ (pc = "loop" /\ remaining_fs_courses # <<>>) =>
                    \A ws \in {LoopWindowStart(candidate, last_course_end)} :
                        SelectCourse(candidate, candidate_avail, interviewer_avail,
                                     parsed_events, ws, scheduled_events, remaining_fs_courses)
                            = SelectCourse(candidate, candidate_avail, interviewer_avail,
                                           other, ws, scheduled_events, remaining_fs_courses)
              /\ pc = "mock" =>
                    /\ SameFeasibility(other)
                    /\ \A start \in {EarliestStart(i, last_mock_end, window_start)} :
                          FindMockSlot(candidate, candidate_avail, interviewer_avail,
                                       parsed_events,
                                       scheduled_events \o course_scheduled_events,
                                       course, start, mock_durations[i + 1])
                              = FindMockSlot(candidate, candidate_avail, interviewer_avail,
                                             other,
                                             scheduled_events \o course_scheduled_events,
                                             course, start, mock_durations[i + 1])]_vars

\* a mock was committed with an interviewer inside the hours of a session
\* that is not a mock and has that interviewer as required attendee
C26_Witness ==
    \E k \in 1..Len(calendar) : \E j \in 1..Len(scheduled_events) :
        /\ ~TitleGrammar(calendar[k].title)
        /\ EMAIL[scheduled_events[j].interviewer] \in calendar[k].required
        /\ Overlaps(scheduled_events[j].start, scheduled_events[j].end,
                    calendar[k].start, calendar[k].end)

\* C27: build_interviewer_availability records a session's interval under
\* interviewer name N, on the session's start date, if and only if the
\* session is a mock session, N is the first token after the colon of its
\* title, and N's configured email is among its required attendees; nothing
\* is recorded for any other session.
C27_RecordsAttendedMocksOnly ==
    [][pc = "start" =>
          \A n \in Names :
              interviewer_avail'[n] =
                  IntervalsOf(SelectSeq(fetch_events(fetch_status, calendar).events,
                                        LAMBDA x : /\ TitleGrammarWith(x.title, {n})
                                                   /\ EMAIL[n] \in x.required))]_vars

\* the maps were built from a calendar with a mock that is recorded, a mock
\* whose interviewer is not a required attendee and is not recorded, and
\* sessions that are not mocks
C27_Witness ==
    /\ pc # "start"
    /\ fetch_status = "ok"
    /\ HasNonMockSession
    /\ \E x, y \in SeqToSet(calendar) :
          /\ TitleGrammarWith(x.title, {"Chandu"})
          /\ <<x.start, x.end>> \in SeqToSet(FetchedBusy("Chandu"))
          /\ TitleGrammarWith(y.title, {"Kumar"})
          /\ EMAIL["Kumar"] \notin y.required
          /\ FetchedBusy("Kumar") = <<>>

\* C25: is_mock_interview_event(title) is True exactly when the title has a
\* non-empty candidate part before the first colon and after it exactly three
\* whitespace-separated tokens: a configured main or backup interviewer name,
\* a course of COURSES, and Mock1, Mock2 or Mock3.  Every other title is
\* rejected; of the titles of test_event_filtering the first, third, fifth
\* and eighth are accepted.
C25_TitleFilterIsTheGrammar ==
    /\ (pc = "found" /\ fetch_status = "ok") =>
          \A k \in 1..Len(calendar) :
              parsed_events[k].is_mock_event <=> TitleGrammar(calendar[k].title)
    /\ pc = "tested" =>
          /\ result.events = <<TRUE, FALSE, TRUE, FALSE, TRUE, FALSE, FALSE, TRUE, FALSE>>
          /\ \A k \in 1..Len(test_titles) :
                result.events[k] <=> TitleGrammar(test_titles[k])

\* a listed title with irregular whitespace was accepted
C25_Witness ==
    /\ pc = "found"
    /\ fetch_status = "ok"
    /\ calendar[1].title = <<Space, "asha", Space, Colon, "Kumar", Space, Space, "FS3", Space,
                             "Mock1", Space>>
    /\ parsed_events[1].is_mock_event

\* the part of a string between its first and its last symbol that is not
\* whitespace
Trimmed(str) ==
    IF \A k \in 1..Len(str) : str[k] = Space THEN <<>>
    ELSE SubSeq(str, SetMin({k \in 1..Len(str) : str[k] # Space}),
                SetMax({k \in 1..Len(str) : str[k] # Space}))

\* the candidate part of a title that has a colon
BeforeColon(title) == SubSeq(title, 1, SetMin({k \in 1..Len(title) : title[k] = Colon}) - 1)

\* the session is a mock of the candidate asked for
MockOf(item, candidate_name) ==
    /\ TitleGrammar(item.title)
    /\ lower(Trimmed(BeforeColon(item.title))) = lower(Trimmed(candidate_name))

\* C30: find_candidate_events returns exactly the fetched mock-interview
\* sessions whose candidate part equals the requested name after trimming
\* and case folding, in the order fetched; a failed fetch gives an error and
\* no session.
C30_FindsExactlyCandidateMocks ==
    pc = "found" =>
        IF fetch_status # "ok"
        THEN result.status = "error" /\ result.events = <<>>
        ELSE /\ result.status = "ok"
             /\ [k \in 1..Len(result.events) |-> result.events[k].event_id]
                    = [k \in 1..Len(SelectSeq(calendar, LAMBDA x : MockOf(x, candidate.name)))
                          |-> SelectSeq(calendar, LAMBDA x : MockOf(x, candidate.name))[k].id]
             /\ \A k \in 1..Len(result.events) :
                   \E x \in SeqToSet(calendar) :
                       x.id = result.events[k].event_id /\ x.title = result.events[k].title

\* two of three listed sessions were returned for a name typed in capitals
\* and with blanks around it
C30_Witness ==
    /\ pc = "found"
    /\ candidate.name = <<Space, "ASHA", Space>>
    /\ Len(calendar) = 3
    /\ Len(result.events) = 2
    /\ result.events[1].event_id = "e1"
    /\ result.events[2].event_id = "e3"

\* the course loop enters schedule_mock_set for the first course of the run
PlacesFirstCourse == PicksCourse /\ scheduled_fs_courses = <<>>

\* C28: the first course placed receives a set of three mocks when the
\* window has at least 16 inclusive calendar days (long mode), and a set of
\* two mocks when it has fewer (short mode).
C28_FirstCourseSetSize ==
    [][PlacesFirstCourse =>
          Len(mock_durations') = IF calculate_calendar_days(candidate) >= 16 THEN 3 ELSE 2]_vars

\* the short-mode half of C28 alone
C28_FirstCourseSetSizeShortMode ==
    [][(PlacesFirstCourse /\ calculate_calendar_days(candidate) < 16) =>
          Len(mock_durations') = 2]_vars

\* the committed mock at position k + 1 opens a course set, the mock at
\* position k belonging to the set placed before it
OpensNextSet(k) ==
    /\ k \in 1..(Len(scheduled_events) - 1)
    /\ Mock(k + 1).course # Mock(k).course

\* the end of the last mock of the set the mock at position k belongs to
LastEndOfSet(k) ==
    SetMax({Mock(j).end : j \in {h \in 1..k : Mock(h).course = Mock(k).course}})

DayTypeOfDate(day) ==
    CASE (candidate.weekday0 + day) % 7 = 5 -> "Saturday"
      [] (candidate.weekday0 + day) % 7 = 6 -> "Sunday"
      [] OTHER -> "Weekday"

\* C31: every committed mock lies within one configured working-hour
\* interval of its interviewer for the day type of its date; an hour value
\* of the configuration is read in minutes, 21.5 being 21:30 (the model
\* writes the hours in half hours, 30 minutes each).
C31_WithinWorkingHours ==
    \A k \in Committed :
        \E wh \in SeqToSet(INTERVIEWER_HOURS[Mock(k).interviewer]
                                            [DayTypeOfDate(Date(Mock(k).start))]) :
            /\ Date(Mock(k).end) = Date(Mock(k).start)
            /\ Mock(k).start - Midnight(Date(Mock(k).start)) >= wh[1] * 30
            /\ Mock(k).end - Midnight(Date(Mock(k).start)) <= wh[2] * 30

\* a mock was committed with Gowtham that ends at 21:30, the end of his hours
C31_Witness ==
    \E k \in Committed :
        /\ Mock(k).interviewer = "Gowtham"
        /\ Mock(k).end - Midnight(Date(Mock(k).start)) = 43 * 30

\* the candidate's windows on a date: weekend_slots on Saturday and Sunday,
\* weekday_slots from Monday to Friday
CandidateWindows(day) ==
    IF DayTypeOfDate(day) = "Weekday" THEN candidate.weekday_slots
    ELSE candidate.weekend_slots

\* C37: every committed mock lies within one of the candidate's allowed
\* windows for the day type of its date: its start and its end time of day
\* fall inside the same window.
C37_WithinCandidateWindow ==
    \A k \in Committed :
        \E w \in SeqToSet(CandidateWindows(Date(Mock(k).start))) :
            /\ Mock(k).start - Midnight(Date(Mock(k).start)) >= w[1]
            /\ Mock(k).end - Midnight(Date(Mock(k).start)) <= w[2]

\* the start of every committed mock lies within a window of the candidate
C37_StartWithinCandidateWindow ==
    \A k \in Committed :
        \E w \in SeqToSet(CandidateWindows(Date(Mock(k).start))) :
            /\ Mock(k).start - Midnight(Date(Mock(k).start)) >= w[1]
            /\ Mock(k).start - Midnight(Date(Mock(k).start)) <= w[2]

\* the conditions of check_interviewer_avail other than the daily cap
OtherConditionsHold(name, avail, mock_start, mock_end) ==
    /\ ~CrossesMidnight(mock_start, mock_end)
    /\ InWorkingHours(name, get_day_type(candidate, mock_start), mock_start, mock_end)
    /\ ~AlreadyBusy(BusySlots(avail, name, Date(mock_start)), mock_start, mock_end)
    /\ ~is_interviewer_busy(name, parsed_events, mock_start, mock_end)
    /\ NikhilSundayRule(candidate, name, mock_start, mock_end)

\* the interviewers of the course being placed whose only busy interval on a
\* date is one mock committed earlier in this run, with that date
OneMockOn ==
    {nd \in SeqToSet(main_interviewers_list(course) \o backup_interviewers_list(course))
            \X {Date(Mock(k).start) : k \in Committed} :
        /\ Len(BusySlots(interviewer_avail, nd[1], nd[2])) = 1
        /\ \E k \in Committed :
              /\ Mock(k).interviewer = nd[1]
              /\ BusySlots(interviewer_avail, nd[1], nd[2]) = <<<<Mock(k).start, Mock(k).end>>>>}

\* the cursors of the search for the next mock that fall on a date
NextMockCursorsOn(day) ==
    {t \in DayCursors(day, EarliestStart(i, last_mock_end, window_start)) :
        t >= EarliestStart(i, last_mock_end, window_start)}

\* the 30-minute cursors of a date
GridOn(day) == {Midnight(day) + 30 * k : k \in 0..47}

\* the cap condition as the test computes it on updated_interviewer_avail
CapJudgedReached(name, day) ==
    DailyCapReached(BusySlots(UpdatedAvail(interviewer_avail,
                                           scheduled_events \o course_scheduled_events),
                              name, day))

C32_OneIntervalBelowCap ==
    (pc = "mock") => \A nd \in OneMockOn : ~CapJudgedReached(nd[1], nd[2])

\* at the cursors the search for the next mock examines, the test gives the
\* answer it would give with every interval counted once
C32_SearchCursorsUnaffected ==
    (pc = "mock") =>
        \A nd \in OneMockOn : \A t \in NextMockCursorsOn(nd[2]) :
            ~OtherConditionsHold(nd[1], UpdatedAvail(interviewer_avail,
                                     scheduled_events \o course_scheduled_events),
                                 t, t + mock_durations[i + 1])

\* the cursors of the day-by-day scan on a date, from window lower bound ws,
\* at which a main interviewer of the course is feasible for 90 minutes
ScanMainSlotsOn(crs, ws, day) ==
    SlotsToday(candidate, candidate_avail,
               UpdatedAvail(interviewer_avail, scheduled_events), parsed_events,
               main_interviewers_list(crs), day, ws, 90)

\* the Round 1 probe of a course from window lower bound ws
MainProbe(crs, ws) ==
    find_earliest_mock_slot(candidate, candidate_avail, interviewer_avail,
                            parsed_events, ws, main_interviewers_list(crs), 90,
                            scheduled_events, crs)

\* C35: the selection probe examines the horizon of the day-by-day scan, the
\* end date included: at the head of the course loop, for every remaining
\* course, if the scan has a feasible first-mock cursor with a main
\* interviewer on the end date, the probe returns a time.
C35_ProbeCoversEndDate ==
    (pc = "loop") =>
        \A k \in 1..Len(remaining_fs_courses) :
            \A ws \in {LoopWindowStart(candidate, last_course_end)} :
                (/\ Date(ws) <= Date(EndDate(candidate))
                 /\ ScanMainSlotsOn(remaining_fs_courses[k], ws,
                                    Date(EndDate(candidate))) # {})
                    => MainProbe(remaining_fs_courses[k], ws) # None

\* the same for the dates before the end date
C35_ProbeCoversDatesBeforeEnd ==
    (pc = "loop") =>
        \A k \in 1..Len(remaining_fs_courses) :
            \A ws \in {LoopWindowStart(candidate, last_course_end)} :
                \A day \in Date(ws)..(Date(EndDate(candidate)) - 1) :
                    ScanMainSlotsOn(remaining_fs_courses[k], ws, day) # {}
                        => MainProbe(remaining_fs_courses[k], ws) # None

\* the search schedule_mock_set makes for the mock it is about to place
NextMockSearch ==
    FindMockSlot(candidate, candidate_avail, interviewer_avail, parsed_events,
                 scheduled_events \o course_scheduled_events, course,
                 EarliestStart(i, last_mock_end, window_start), mock_durations[i + 1])

\* C36: a course the selection probe picked gets its first mock: when
\* schedule_mock_set is entered for a course of the loop, its search for
\* mock 1 finds a slot.
C36_SelectedCourseGetsFirstMock ==
    (pc = "mock" /\ i = 0 /\ course # OWN_COURSE) => NextMockSearch.found

\* the same for the courses whose first mock lasts 90 minutes
C36_SelectedCourseGetsFirstMock90 ==
    (pc = "mock" /\ i = 0 /\ course # OWN_COURSE /\ mock_durations[1] = 90)
        => NextMockSearch.found

\* C38: a create call that ends in an error leaves the committed list and the
\* interviewer busy map as they were, and schedule_mock_set changes either of
\* them only in a step whose create call succeeded, by appending that one
\* placement.
C38_ErrorCommitsNothing ==
    [][/\ (failures' = failures + 1)
            => /\ scheduled_events' = scheduled_events
               /\ interviewer_avail' = interviewer_avail
       /\ (pc = "mock" /\ (scheduled_events' # scheduled_events
                           \/ interviewer_avail' # interviewer_avail))
            => /\ creates' = creates + 1
               /\ failures' = failures
               /\ Len(scheduled_events') = Len(scheduled_events) + 1
               /\ SubSeq(scheduled_events', 1, Len(scheduled_events)) = scheduled_events
               /\ \E n \in Names :
                     /\ Len(interviewer_avail'[n]) = Len(interviewer_avail[n]) + 1
                     /\ \A o \in Names \ {n} : interviewer_avail'[o] = interviewer_avail[o]]_vars

\* a create call failed after a mock of the same course had been committed
C38_Witness ==
    /\ pc = "after"
    /\ failures = 1
    /\ sms_ret \in {"calendar_quota_exceeded", "calendar_rate_limited", "calendar_event_error"}
    /\ Len(course_scheduled_events) = 1
    /\ Len(scheduled_events) >= 1

\* C40: one invocation of create_event_with_retry creates at most one event:
\* the step in which an insert succeeds ends the invocation with status 'ok'
\* and that event's id, the inserts of an invocation created at most one
\* event at any time, and a returned invocation has status 'ok' exactly when
\* its last insert created an event, whose id it returns.
C40_AtMostOneEventPerInvocation ==
    [][/\ (cpc = "insert" /\ behaviour[cur_attempt + 1] = "ok")
            => /\ cpc' = "idle"
               /\ result'.status = "ok"
               /\ provider_events' = <<event_id'>>
               /\ insert_calls' = insert_calls + 1
       /\ Len(provider_events') <= 1
       /\ (cop' = "create_event_with_retry" /\ cpc' = "idle")
            => /\ (result'.status = "ok") = (provider_events' # <<>>)
               /\ (result'.status = "ok") => event_id' = provider_events'[1]
               /\ (result'.status # "ok") => event_id' = None]_vars

\* an invocation returned 'ok' for an insert that succeeded after three
\* failed attempts
C40_Witness ==
    /\ CreateReturned
    /\ result.status = "ok"
    /\ insert_calls = CALENDAR_API_MAX_RETRIES + 1
    /\ provider_events = <<event_id>>

\* the interviewer a session on the calendar was written for
WrittenFor(session) == CHOOSE n \in Names : EMAIL[n] \in session.required

\* a later run has read the mock written under the stored name as a mock of
\* that candidate token with that interviewer, busy for both
ReadBackAsWritten ==
    /\ parsed_events[1].is_mock_event
    /\ parsed_events[1].candidate = candidate.name
    /\ split(parsed_events[1].after_colon) # <<>>
    /\ split(parsed_events[1].after_colon)[1] = <<WrittenFor(calendar[1])>>
    /\ interviewer_avail[WrittenFor(calendar[1])]
           = <<<<calendar[1].start, calendar[1].end>>>>
    /\ candidate_avail.busy = <<<<calendar[1].start, calendar[1].end>>>>

\* C39: every title schedule_mock_set writes is accepted by
\* is_mock_interview_event and parses back to the same candidate token and
\* interviewer name, for every non-empty name the intake accepts, so that a
\* later run marks the interviewer and the candidate busy for it.
C39_WrittenTitleRoundTrips ==
    (pc = "loop" /\ calendar # <<>>) => ReadBackAsWritten

\* the same for the names that hold no colon
C39_ColonFreeNameRoundTrips ==
    (pc = "loop" /\ calendar # <<>> /\ \A k \in 1..Len(candidate.name) : candidate.name[k] # Colon)
        => ReadBackAsWritten

\* C33: with two coroutines sharing the limiter, every insert call is sent at
\* least CALENDAR_API_DELAY_SECONDS after the insert call before it.
C33_ConcurrentInsertsKeepDelay ==
    (last_request.op = "insert" /\ last_request.since_previous # None)
        => last_request.since_previous >= CALENDAR_API_DELAY_SECONDS

\* process_candidate has returned or raised
Terminated == pc \in {"done", "raised"}

\* at every position before the end the run has a step to take: the position
\* is one a handler of Next starts from, and a mock being placed is one of
\* the course's mocks
CanStep ==
    /\ pc \in Positions
    /\ pc = "mock" => i < Len(mock_durations)
    /\ pc = "after" => sms_ret # "None"

\* every step moves the run on and removes nothing from what it did: it
\* changes the position or the mock index, the course loop never puts a
\* course back, and a step from the head of the loop either leaves the loop
\* or enters schedule_mock_set for a remaining course
StepsAdvance ==
    [][/\ <<pc', i'>> # <<pc, i>>
       /\ Len(remaining_fs_courses') <= Len(remaining_fs_courses) \/ pc = "start"
       /\ (pc = "after" /\ pc' = "loop")
            => Len(remaining_fs_courses') = Len(remaining_fs_courses) - 1
       /\ creates' \in {creates, creates + 1}]_vars

\* C34: every run terminates when every provider call returns: each pass of
\* the course loop returns or removes one course, each step moves the run
\* on, no position before the end is without a step, and process_candidate
\* eventually returns or raises.
C34_RunTerminates == []CanStep /\ StepsAdvance /\ <>Terminated

\* a run that went through the whole curriculum, one create call having
\* failed on the way, has returned
C34_Witness ==
    /\ pc = "done"
    /\ failures = 1
    /\ remaining_fs_courses = <<>>
    /\ Len(scheduled_events) >= 8

====
